---- MODULE Spec2Model ----
(***************************************************************************)
(* A model of the two orchestrators of the repository:                     *)
(*   - src/src/es_automation.py  (YAML operation files, class              *)
(*     ElasticsearchAutomation, with config_parser.py, es_client.py,       *)
(*     validators.py and utils.py), written "yaml" below;                  *)
(*   - src/elasticsearch-ops/executor.py (.properties operation files),    *)
(*     written "props" below.                                              *)
(* One run of one orchestrator is one behaviour.  Python exceptions are    *)
(* values: an operator that may raise returns a record whose exc field     *)
(* says whether it raised and with what.                                   *)
(***************************************************************************)
EXTENDS Integers, Sequences, FiniteSets, TLC

(***************************************************************************)
(* Bounds of the model.                                                    *)
(***************************************************************************)
\* At most this many files lie in the operations directory of a run.
MaxFiles == 3
\* At most this many operations of a run are disturbed by transient
\* network faults (a disturbed call fails 1..DefaultMaxRetries times in a row).
MaxFaults == 1

(***************************************************************************)
(* Program constants.                                                      *)
(***************************************************************************)
DefaultMaxRetries == 3
DefaultRetryDelay == 2
MaxIndexNameBytes == 255

(***************************************************************************)
(* Python values.  A str is a sequence of one-character strings so that    *)
(* the code's character tests can be computed.                             *)
(***************************************************************************)
PyNone == [t |-> "none"]
PyInt(n) == [t |-> "int", v |-> n]
PyBool(b) == [t |-> "bool", v |-> b]
PyStr(s) == [t |-> "str", v |-> s]
PyList(s) == [t |-> "list", v |-> s]
PyDict(f) == [t |-> "dict", v |-> f]
PyFloat(n) == [t |-> "float", v |-> n]
EmptyDict == PyDict(<<>>)

\* Python truthiness, as used by "if settings:", "if doc_id:", "if body".
Truthy(x) ==
    CASE x.t = "none" -> FALSE
      [] x.t = "bool" -> x.v
      [] x.t = "int" -> x.v # 0
      [] x.t = "str" -> Len(x.v) > 0
      [] x.t = "list" -> Len(x.v) > 0
      [] x.t = "dict" -> DOMAIN x.v # {}

\* isinstance(x, int): bool is a subclass of int in Python.
IsInt(x) == x.t \in {"int", "bool"}
\* The number an int (or bool) compares as.
IntVal(x) == IF x.t = "bool" THEN (IF x.v THEN 1 ELSE 0) ELSE x.v

\* "key in d" for a dict d, and d.get(key, None).
Has(d, key) == key \in DOMAIN d
Get(d, key) == IF key \in DOMAIN d THEN d[key] ELSE PyNone

(***************************************************************************)
(* Exceptions.  str(e) is the pair (msg, arg).                             *)
(***************************************************************************)
NoExc == [raised |-> FALSE, type |-> "", msg |-> "", arg |-> ""]
Raise(type, msg, arg) == [raised |-> TRUE, type |-> type, msg |-> msg, arg |-> arg]

(***************************************************************************)
(* Characters.                                                             *)
(***************************************************************************)
UpperChars == {"A", "B", "C", "D", "E", "F", "G", "H", "I", "J", "K", "L", "M",
               "N", "O", "P", "Q", "R", "S", "T", "U", "V", "W", "X", "Y", "Z"}
InvalidChars == <<"\\", "/", "*", "?", "\"", "<", ">", "|", " ", ",", "#">>
StartChars == {"-", "_", "+"}

\* The characters of the model's alphabet that take two bytes in UTF-8.
TwoByteChars == {"é"}
\* (mutant: the characters are counted, not the bytes)
Utf8LenCountsCharacters(s) == Len(s)
\* len(s.encode('utf-8'))
Utf8Len(s) == Len(s) + Cardinality({k \in 1..Len(s) : s[k] \in TwoByteChars})

(***************************************************************************)
(* validators.py                                                           *)
(***************************************************************************)
\* The first invalid character (in the order of invalid_chars) that occurs in s, or 0.
FirstInvalid(s) ==
    LET hit == {k \in 1..Len(InvalidChars) : \E j \in 1..Len(s) : s[j] = InvalidChars[k]}
    IN  IF hit = {} THEN 0 ELSE CHOOSE k \in hit : \A m \in hit : k <= m

validate_index_name(index_name) ==
    IF index_name.t # "str" THEN Raise("ValueError", "Index name must be a string", "")
    ELSE LET s == index_name.v IN
         IF Len(s) = 0 THEN Raise("ValueError", "Index name cannot be empty", "")
         ELSE IF Utf8Len(s) > MaxIndexNameBytes
              THEN Raise("ValueError", "Index name must be 255 bytes or less", "")
         ELSE IF s = <<".">> \/ s = <<".", ".">>
              THEN Raise("ValueError", "Index name cannot be '.' or '..'", "")
         ELSE IF s[1] \in StartChars
              THEN Raise("ValueError", "Index name cannot start with", s[1])
         ELSE IF \E j \in 1..Len(s) : s[j] \in UpperChars
              THEN Raise("ValueError", "Index name must be lowercase", "")
         ELSE IF FirstInvalid(s) # 0
              THEN Raise("ValueError", "Index name cannot contain", InvalidChars[FirstInvalid(s)])
         ELSE NoExc

validate_index_settings(settings) ==
    IF settings.t # "dict" THEN Raise("ValueError", "Index settings must be a dictionary", "")
    ELSE LET d == settings.v IN
         IF Has(d, "number_of_shards") /\ ~IsInt(d["number_of_shards"])
         THEN Raise("ValueError", "number_of_shards must be an integer", "")
         ELSE IF Has(d, "number_of_shards") /\ IntVal(d["number_of_shards"]) <= 0
         THEN Raise("ValueError", "number_of_shards must be greater than 0", "")
         ELSE IF Has(d, "number_of_replicas") /\ ~IsInt(d["number_of_replicas"])
         THEN Raise("ValueError", "number_of_replicas must be an integer", "")
         ELSE IF Has(d, "number_of_replicas") /\ IntVal(d["number_of_replicas"]) < 0
         THEN Raise("ValueError", "number_of_replicas must be 0 or greater", "")
         ELSE NoExc

validate_index_mappings(mappings) ==
    IF mappings.t # "dict" THEN Raise("ValueError", "Index mappings must be a dictionary", "")
    ELSE LET d == mappings.v IN
         IF ~Has(d, "properties") THEN NoExc
         ELSE IF d["properties"].t # "dict"
              THEN Raise("ValueError", "Mappings 'properties' must be a dictionary", "")
         ELSE LET props == d["properties"].v
                  bad == {f \in DOMAIN props : props[f].t # "dict"}
              IN  IF bad # {}
                  THEN Raise("ValueError", "Field definition must be a dictionary", CHOOSE f \in bad : TRUE)
                  ELSE NoExc

validate_document(document) ==
    IF document.t # "dict" THEN Raise("ValueError", "Document must be a dictionary", "")
    ELSE NoExc

\* "key in x" where x is a dict: the non-dict cases raise TypeError or test
\* containment; the template bodies of the model are dicts or scalars.
\* (mutant: index_patterns is optional)
validate_template_body_patterns_optional(body) == NoExc
validate_template_body(body) ==
    IF body.t # "dict" THEN Raise("ValueError", "Index template body must be a dictionary", "")
    ELSE LET d == body.v IN
         IF ~Has(d, "index_patterns") THEN Raise("ValueError", "Index template must have 'index_patterns'", "")
         ELSE IF d["index_patterns"].t # "list" THEN Raise("ValueError", "'index_patterns' must be a list", "")
         ELSE IF Len(d["index_patterns"].v) = 0 THEN Raise("ValueError", "'index_patterns' cannot be empty", "")
         ELSE IF \E k \in 1..Len(d["index_patterns"].v) : d["index_patterns"].v[k].t # "str"
              THEN Raise("ValueError", "index_patterns[i] must be a string", "")
         ELSE IF ~Has(d, "template") THEN NoExc
         ELSE IF d["template"].t # "dict"
              THEN (IF d["template"].t \in {"none", "int", "bool"}
                    THEN Raise("TypeError", "argument is not iterable", "")
                    ELSE NoExc)
         ELSE LET tpl == d["template"].v
                  s == IF Has(tpl, "settings") THEN validate_index_settings(tpl["settings"]) ELSE NoExc
              IN  IF s.raised THEN s
                  ELSE IF Has(tpl, "mappings") THEN validate_index_mappings(tpl["mappings"])
                  ELSE NoExc

(***************************************************************************)
(* The cluster behind the Elasticsearch library.  A cluster is the set of  *)
(* existing indices, templates and documents; one request either fails in  *)
(* transit (fault), is rejected by the server, or is applied.              *)
(***************************************************************************)
EmptyCluster == [indices |-> {}, templates |-> {}, docs |-> {}]
AutoId == <<"a", "u", "t", "o">>
NoneResult == [none |-> TRUE]
Acknowledged == [acknowledged |-> TRUE]

MutatingApis == {"indices.create", "indices.delete", "indices.put_settings",
                 "indices.put_index_template", "indices.delete_index_template",
                 "index", "delete"}
ProbeApis == {"ping", "indices.exists", "indices.exists_index_template"}

Call(api, target, id, body) == [api |-> api, target |-> target, id |-> id, body |-> body]

\* One request to the cluster: [exc, result, cluster].
EsInvoke(api, target, id, cl, fault) ==
    LET ok(res, c) == [exc |-> NoExc, result |-> res, cluster |-> c]
        no(type) == [exc |-> Raise(type, api, ""), result |-> NoneResult, cluster |-> cl]
    IN  IF fault THEN no("ConnectionError")
        ELSE CASE api = "indices.exists" -> ok([exists |-> target \in cl.indices], cl)
               [] api = "indices.exists_index_template" -> ok([exists |-> target \in cl.templates], cl)
               [] api = "indices.create" ->
                    IF target \in cl.indices THEN no("RequestError")
                    ELSE ok(Acknowledged, [cl EXCEPT !.indices = @ \cup {target}])
               [] api = "indices.delete" ->
                    IF target \notin cl.indices THEN no("NotFoundError")
                    ELSE ok(Acknowledged, [cl EXCEPT !.indices = @ \ {target},
                                                     !.docs = {d \in @ : d[1] # target}])
               [] api = "indices.put_settings" ->
                    IF target \notin cl.indices THEN no("NotFoundError") ELSE ok(Acknowledged, cl)
               [] api = "indices.put_index_template" ->
                    ok(Acknowledged, [cl EXCEPT !.templates = @ \cup {target}])
               [] api = "indices.delete_index_template" ->
                    IF target \notin cl.templates THEN no("NotFoundError")
                    ELSE ok(Acknowledged, [cl EXCEPT !.templates = @ \ {target}])
               [] api = "index" ->
                    ok([id |-> id, result |-> "created"],
                       [cl EXCEPT !.indices = @ \cup {target}, !.docs = @ \cup {<<target, id>>}])
               [] api = "delete" ->
                    IF <<target, id>> \notin cl.docs THEN no("NotFoundError")
                    ELSE ok([id |-> id, result |-> "deleted"], [cl EXCEPT !.docs = @ \ {<<target, id>>}])

(***************************************************************************)
(* es_client.py: ElasticsearchClient.                                      *)
(* self is [max_retries, retry_delay]; a method returns                    *)
(* [exc, result, cluster, calls, slept]: what it raised or returned, the   *)
(* cluster after it, the requests it issued and the seconds it slept.      *)
(***************************************************************************)
\* ElasticsearchClient(es_config): the orchestrator passes no retry settings.
Self == [max_retries |-> DefaultMaxRetries, retry_delay |-> DefaultRetryDelay]

Out(exc, result, cl, calls, slept) ==
    [exc |-> exc, result |-> result, cluster |-> cl, calls |-> calls, slept |-> slept]

\* An exception raised before any request is sent.
Early(exc, cl) == Out(exc, NoneResult, cl, <<>>, 0)

RECURSIVE RetryLoop(_, _, _, _, _, _, _, _, _, _)
RetryLoop(self, api, target, id, body, cl, fails, attempt, calls, slept) ==
    IF attempt >= self.max_retries THEN Out(NoExc, NoneResult, cl, calls, slept)
    ELSE LET r == EsInvoke(api, target, id, cl, attempt < fails)
             c == Append(calls, Call(api, target, id, body))
         IN  IF ~r.exc.raised THEN Out(NoExc, r.result, r.cluster, c, slept)
             ELSE IF attempt + 1 >= self.max_retries THEN Out(r.exc, NoneResult, cl, c, slept)
             ELSE RetryLoop(self, api, target, id, body, cl, fails, attempt + 1, c,
                            slept + self.retry_delay)

\* (mutant: an error of the server is not retried, only a failure in transit is)
retry_operation_transient_only(self, api, target, id, body, cl, fails) ==
    IF EsInvoke(api, target, id, cl, FALSE).exc.raised /\ fails = 0
    THEN RetryLoop([self EXCEPT !.max_retries = 1], api, target, id, body, cl, fails, 0, <<>>, 0)
    ELSE RetryLoop(self, api, target, id, body, cl, fails, 0, <<>>, 0)
\* (mutant: the helper also sleeps after the last failed attempt)
retry_operation_sleep_after_last(self, api, target, id, body, cl, fails) ==
    LET r == RetryLoop(self, api, target, id, body, cl, fails, 0, <<>>, 0)
    IN  [r EXCEPT !.slept = IF r.exc.raised THEN @ + self.retry_delay ELSE @]
\* _retry_operation(operation): the wrapped call is one request to the cluster.
\* (mutant: the wrapped call is attempted at least once)
retry_operation_at_least_once(self, api, target, id, body, cl, fails) ==
    RetryLoop([self EXCEPT !.max_retries = IF @ < 1 THEN 1 ELSE @], api, target, id, body, cl,
              fails, 0, <<>>, 0)
retry_operation(self, api, target, id, body, cl, fails) ==
    RetryLoop(self, api, target, id, body, cl, fails, 0, <<>>, 0)

client_create_index(self, index_name, settings, mappings, cl, net) ==
    LET b1 == IF Truthy(settings) THEN [settings |-> settings] ELSE <<>>
        b2 == IF Truthy(mappings) THEN [mappings |-> mappings] ELSE <<>>
        body == PyDict(b1 @@ b2)
    IN  retry_operation(self, "indices.create", index_name.v, <<>>,
                        IF Truthy(body) THEN body ELSE PyNone, cl, net.fails)

\* (mutant: the delete is sent without the existence check)
client_delete_index_unchecked(self, index_name, cl, net) ==
    retry_operation(self, "indices.delete", index_name.v, <<>>, PyNone, cl, net.fails)
client_delete_index(self, index_name, cl, net) ==
    LET probe == EsInvoke("indices.exists", index_name.v, <<>>, cl, net.probe)
        pc1 == <<Call("indices.exists", index_name.v, <<>>, PyNone)>>
    IN  IF probe.exc.raised THEN Out(probe.exc, NoneResult, cl, pc1, 0)
        ELSE IF ~probe.result.exists
             THEN Out(NoExc, [acknowledged |-> TRUE, status |-> "index_not_found"], cl, pc1, 0)
        ELSE LET r == retry_operation(self, "indices.delete", index_name.v, <<>>, PyNone, cl, net.fails)
             IN  Out(r.exc, r.result, r.cluster, pc1 \o r.calls, r.slept)

client_update_index_settings(self, index_name, settings, cl, net) ==
    retry_operation(self, "indices.put_settings", index_name.v, <<>>, settings, cl, net.fails)

client_create_index_template(self, template_name, body, cl, net) ==
    retry_operation(self, "indices.put_index_template", template_name.v, <<>>, body, cl, net.fails)

\* (mutant: the existence check is retried like the delete)
client_delete_index_template_probe_retried(self, template_name, cl, net) ==
    LET pc1 == <<Call("indices.exists_index_template", template_name.v, <<>>, PyNone)>>
        probe == retry_operation(self, "indices.exists_index_template", template_name.v, <<>>, PyNone,
                                 cl, IF net.probe THEN 1 ELSE 0)
    IN  IF probe.exc.raised \/ probe.result = NoneResult
        THEN Out(probe.exc, NoneResult, cl, probe.calls, probe.slept)
        ELSE IF ~probe.result.exists
             THEN Out(NoExc, [acknowledged |-> TRUE, status |-> "template_not_found"], cl, probe.calls, 0)
        ELSE LET r == retry_operation(self, "indices.delete_index_template", template_name.v, <<>>,
                                      PyNone, cl, net.fails)
             IN  Out(r.exc, r.result, r.cluster, probe.calls \o r.calls, r.slept)
client_delete_index_template(self, template_name, cl, net) ==
    LET probe == EsInvoke("indices.exists_index_template", template_name.v, <<>>, cl, net.probe)
        pc1 == <<Call("indices.exists_index_template", template_name.v, <<>>, PyNone)>>
    IN  IF probe.exc.raised THEN Out(probe.exc, NoneResult, cl, pc1, 0)
        ELSE IF ~probe.result.exists
             THEN Out(NoExc, [acknowledged |-> TRUE, status |-> "template_not_found"], cl, pc1, 0)
        ELSE LET r == retry_operation(self, "indices.delete_index_template", template_name.v, <<>>,
                                      PyNone, cl, net.fails)
             IN  Out(r.exc, r.result, r.cluster, pc1 \o r.calls, r.slept)

client_index_document(self, index_name, document, doc_id, cl, net) ==
    LET id == IF Truthy(doc_id) THEN doc_id.v ELSE AutoId
        r == retry_operation(self, "index", index_name.v, id, document, cl, net.fails)
    IN  IF r.exc.raised THEN r
        \* response['_id'] is read for the log line: None is not subscriptable
        ELSE IF r.result = NoneResult
             THEN Out(Raise("TypeError", "'NoneType' object is not subscriptable", ""),
                      NoneResult, r.cluster, r.calls, r.slept)
        ELSE r

client_delete_document(self, index_name, doc_id, cl, net) ==
    retry_operation(self, "delete", index_name.v, doc_id.v, PyNone, cl, net.fails)

(***************************************************************************)
(* utils.py                                                                *)
(***************************************************************************)
UpperSeq == <<"A", "B", "C", "D", "E", "F", "G", "H", "I", "J", "K", "L", "M",
              "N", "O", "P", "Q", "R", "S", "T", "U", "V", "W", "X", "Y", "Z">>
LowerSeq == <<"a", "b", "c", "d", "e", "f", "g", "h", "i", "j", "k", "l", "m",
              "n", "o", "p", "q", "r", "s", "t", "u", "v", "w", "x", "y", "z">>

\* str.lower()
LowerChar(c) ==
    IF c \in UpperChars THEN LowerSeq[CHOOSE k \in 1..Len(UpperSeq) : UpperSeq[k] = c] ELSE c
Lower(s) == [k \in 1..Len(s) |-> LowerChar(s[k])]

DryRunWords == {<<"t", "r", "u", "e">>, <<"1">>, <<"y", "e", "s">>, <<"o", "n">>}

\* is_dry_run(): os.environ.get('DRY_RUN', '').lower() in ('true', '1', 'yes', 'on')
is_dry_run(env) == Lower(env.DRY_RUN) \in DryRunWords

\* safe_get(dictionary, key, default): key is the dotted path, already split.
RECURSIVE safe_get(_, _, _)
safe_get(current, keys, default) ==
    IF keys = <<>> THEN current
    ELSE IF current.t = "dict" /\ Has(current.v, Head(keys))
         THEN safe_get(current.v[Head(keys)], Tail(keys), default)
         ELSE default

\* validate_required_fields(data, required_fields): data is a dict or None.
validate_required_fields(data, required_fields) ==
    IF data.t # "dict" THEN Raise("TypeError", "argument is not iterable", "")
    ELSE LET missing == SelectSeq(required_fields, LAMBDA f : ~Has(data.v, f))
         IN  IF missing # <<>> THEN Raise("ValueError", "Missing required fields", Head(missing))
             ELSE NoExc

(***************************************************************************)
(* config_parser.py                                                        *)
(***************************************************************************)
\* load_environment_config: file is [exists, data]; returns [exc, config].
load_environment_config(file) ==
    IF ~file.exists
    THEN [exc |-> Raise("FileNotFoundError", "Environment config file not found", ""), config |-> PyNone]
    ELSE LET config == file.data
             v1 == validate_required_fields(config, <<"elasticsearch">>)
             v2 == validate_required_fields(safe_get(config, <<"elasticsearch">>, EmptyDict),
                                            <<"host", "port">>)
         IN  IF v1.raised THEN [exc |-> v1, config |-> PyNone]
             ELSE IF v2.raised THEN [exc |-> v2, config |-> PyNone]
             ELSE [exc |-> NoExc, config |-> config]

IndexKinds == {"create_index", "delete_index", "update_index_settings"}
TemplateKinds == {"create_index_template", "delete_index_template"}
DocumentKinds == {"index_document", "delete_document"}

\* (mutant: only the operation field is required)
validate_operation_tag_only(operation_data) ==
    IF ~Has(operation_data, "operation") THEN Raise("ValueError", "Missing field", "operation")
    ELSE NoExc
\* _validate_operation(operation_data, file_path)
validate_operation(operation_data) ==
    IF ~Has(operation_data, "operation") THEN Raise("ValueError", "Missing field", "operation")
    ELSE LET operation == operation_data["operation"] IN
         IF operation \in IndexKinds
         THEN (IF ~Has(operation_data, "index_name") THEN Raise("ValueError", "Missing field", "index_name")
               ELSE NoExc)
         ELSE IF operation \in TemplateKinds
         THEN (IF ~Has(operation_data, "template_name")
               THEN Raise("ValueError", "Missing field", "template_name")
               ELSE NoExc)
         ELSE IF operation \in DocumentKinds
         THEN (IF ~Has(operation_data, "index_name") THEN Raise("ValueError", "Missing field", "index_name")
               ELSE IF operation = "index_document" /\ ~Has(operation_data, "document")
                    THEN Raise("ValueError", "Missing field", "document")
               ELSE IF operation = "delete_document" /\ ~Has(operation_data, "doc_id")
                    THEN Raise("ValueError", "Missing field", "doc_id")
               ELSE NoExc)
         ELSE NoExc   \* unknown operation type: a logged warning only

\* load_operation_files: files is the list glob returned, each [name, ext, parses, data];
\* a file that does not parse to a mapping, or whose definition does not
\* validate, is logged and skipped.
\* (mutant: the first file that fails to parse ends the loading)
RECURSIVE load_operation_files_stops_at_unreadable(_)
load_operation_files_stops_at_unreadable(files) ==
    IF files = <<>> THEN <<>>
    ELSE LET f == Head(files)
             operation_data == f.data @@ [_source_file |-> f.name, _file_name |-> f.name]
             rest == load_operation_files_stops_at_unreadable(Tail(files))
         IN  IF ~f.parses THEN <<>>
             ELSE IF validate_operation(operation_data).raised THEN rest
             ELSE <<operation_data>> \o rest
RECURSIVE load_operation_files(_)
load_operation_files(files) ==
    IF files = <<>> THEN <<>>
    ELSE LET f == Head(files)
             operation_data == f.data @@ [_source_file |-> f.name, _file_name |-> f.name]
             rest == load_operation_files(Tail(files))
         IN  IF ~f.parses THEN rest
             ELSE IF validate_operation(operation_data).raised THEN rest
             ELSE <<operation_data>> \o rest

(***************************************************************************)
(* es_automation.py: the handlers of ElasticsearchAutomation.              *)
(***************************************************************************)
\* operation['key'] on a missing key
KeyError(key) == Raise("KeyError", "", key)

\* (mutant: the client is called without validating anything)
_create_index_unvalidated(self, operation, cl, net) ==
    client_create_index(self, operation["index_name"], Get(operation, "settings"),
                        Get(operation, "mappings"), cl, net)
_create_index(self, operation, cl, net) ==
    IF ~Has(operation, "index_name") THEN Early(KeyError("index_name"), cl)
    ELSE LET index_name == operation["index_name"]
             settings == Get(operation, "settings")
             mappings == Get(operation, "mappings")
             v1 == validate_index_name(index_name)
             v2 == IF Truthy(settings) THEN validate_index_settings(settings) ELSE NoExc
             v3 == IF Truthy(mappings) THEN validate_index_mappings(mappings) ELSE NoExc
         IN  IF v1.raised THEN Early(v1, cl)
             ELSE IF v2.raised THEN Early(v2, cl)
             ELSE IF v3.raised THEN Early(v3, cl)
             ELSE client_create_index(self, index_name, settings, mappings, cl, net)

_delete_index(self, operation, cl, net) ==
    IF ~Has(operation, "index_name") THEN Early(KeyError("index_name"), cl)
    ELSE LET index_name == operation["index_name"]
             v1 == validate_index_name(index_name)
         IN  IF v1.raised THEN Early(v1, cl)
             ELSE client_delete_index(self, index_name, cl, net)

_update_index_settings(self, operation, cl, net) ==
    IF ~Has(operation, "index_name") THEN Early(KeyError("index_name"), cl)
    ELSE IF ~Has(operation, "settings") THEN Early(KeyError("settings"), cl)
    ELSE LET index_name == operation["index_name"]
             settings == operation["settings"]
             v1 == validate_index_name(index_name)
             v2 == validate_index_settings(settings)
         IN  IF v1.raised THEN Early(v1, cl)
             ELSE IF v2.raised THEN Early(v2, cl)
             ELSE client_update_index_settings(self, index_name, settings, cl, net)

\* The template body: operation['body'], or built from the separate keys.
TemplateBody(operation) ==
    IF Has(operation, "body") THEN operation["body"]
    ELSE LET b1 == IF Has(operation, "index_patterns")
                   THEN [index_patterns |-> operation["index_patterns"]] ELSE <<>>
             t1 == IF Has(operation, "settings") THEN [settings |-> operation["settings"]] ELSE <<>>
             t2 == IF Has(operation, "mappings") THEN [mappings |-> operation["mappings"]] ELSE <<>>
             template_section == PyDict(t1 @@ t2)
             b2 == IF Truthy(template_section) THEN [template |-> template_section] ELSE <<>>
         IN  PyDict(b1 @@ b2)

_create_index_template(self, operation, cl, net) ==
    IF ~Has(operation, "template_name") THEN Early(KeyError("template_name"), cl)
    ELSE LET template_name == operation["template_name"]
             body == TemplateBody(operation)
             v1 == validate_template_body(body)
         IN  IF v1.raised THEN Early(v1, cl)
             ELSE client_create_index_template(self, template_name, body, cl, net)

_delete_index_template(self, operation, cl, net) ==
    IF ~Has(operation, "template_name") THEN Early(KeyError("template_name"), cl)
    ELSE client_delete_index_template(self, operation["template_name"], cl, net)

_index_document(self, operation, cl, net) ==
    IF ~Has(operation, "index_name") THEN Early(KeyError("index_name"), cl)
    ELSE IF ~Has(operation, "document") THEN Early(KeyError("document"), cl)
    ELSE LET index_name == operation["index_name"]
             document == operation["document"]
             doc_id == Get(operation, "doc_id")
             v1 == validate_index_name(index_name)
             v2 == validate_document(document)
         IN  IF v1.raised THEN Early(v1, cl)
             ELSE IF v2.raised THEN Early(v2, cl)
             ELSE client_index_document(self, index_name, document, doc_id, cl, net)

_delete_document(self, operation, cl, net) ==
    IF ~Has(operation, "index_name") THEN Early(KeyError("index_name"), cl)
    ELSE IF ~Has(operation, "doc_id") THEN Early(KeyError("doc_id"), cl)
    ELSE LET index_name == operation["index_name"]
             doc_id == operation["doc_id"]
             v1 == validate_index_name(index_name)
         IN  IF v1.raised THEN Early(v1, cl)
             ELSE client_delete_document(self, index_name, doc_id, cl, net)

UnknownOperation(operation_type) == Raise("ValueError", "Unknown operation type", operation_type)

\* (mutant: no else branch, the function returns None)
UnknownBranchReturnsNone(operation_type, cl) == Out(NoExc, NoneResult, cl, <<>>, 0)
\* the else branch of _execute_operation
UnknownBranch(operation_type, cl) == Early(UnknownOperation(operation_type), cl)

\* _execute_operation(operation): the if-elif chain on the operation tag.
_execute_operation(self, operation, cl, net) ==
    LET operation_type == operation["operation"] IN
    CASE operation_type = "create_index" -> _create_index(self, operation, cl, net)
      [] operation_type = "delete_index" -> _delete_index(self, operation, cl, net)
      [] operation_type = "update_index_settings" -> _update_index_settings(self, operation, cl, net)
      [] operation_type = "create_index_template" -> _create_index_template(self, operation, cl, net)
      [] operation_type = "delete_index_template" -> _delete_index_template(self, operation, cl, net)
      [] operation_type = "index_document" -> _index_document(self, operation, cl, net)
      [] operation_type = "delete_document" -> _delete_document(self, operation, cl, net)
      [] OTHER -> UnknownBranch(operation_type, cl)

\* (mutant: the dry run executes the operation)
SimulateByExecuting(operation, cl) == _execute_operation(Self, operation, cl, [probe |-> FALSE, fails |-> 0])
\* (mutant: the dry run rejects the tags _execute_operation does not know)
SimulateKnownOnly(operation, cl) ==
    IF operation["operation"] \in IndexKinds \cup TemplateKinds \cup DocumentKinds
    THEN Out(NoExc, [acknowledged |-> TRUE, dry_run |-> TRUE, operation |-> operation["operation"]],
             cl, <<>>, 0)
    ELSE UnknownBranch(operation["operation"], cl)
\* _simulate_operation(operation): nothing is sent.
_simulate_operation(operation, cl) ==
    Out(NoExc, [acknowledged |-> TRUE, dry_run |-> TRUE, operation |-> operation["operation"]],
        cl, <<>>, 0)

(***************************************************************************)
(* executor.py: the .properties executor.  Every value of a properties     *)
(* file is a str; inputjson is a str holding JSON text, kept as            *)
(* [t |-> "json", valid, value]: whether it parses and what it parses to.  *)
(***************************************************************************)
PyJson(valid, value) == [t |-> "json", valid |-> valid, value |-> value]

\* json.loads(text): [exc, value]
json_loads(text) ==
    IF text.t = "json" /\ text.valid THEN [exc |-> NoExc, value |-> text.value]
    ELSE [exc |-> Raise("JSONDecodeError", "Expecting value", ""), value |-> PyNone]

Digits == <<"0", "1", "2", "3", "4", "5", "6", "7", "8", "9">>
DigitVal(c) == (CHOOSE k \in 1..Len(Digits) : Digits[k] = c) - 1
IsDigit(c) == \E k \in 1..Len(Digits) : Digits[k] = c

\* int(text) for a stripped str: an optional sign, then decimal digits.
\* (mutant: the digits are read in base 8)
RECURSIVE DigitsValueOctal(_)
DigitsValueOctal(s) ==
    IF s = <<>> THEN 0 ELSE 8 * DigitsValueOctal(SubSeq(s, 1, Len(s) - 1)) + DigitVal(s[Len(s)])
RECURSIVE DigitsValue(_)
DigitsValue(s) == IF s = <<>> THEN 0 ELSE 10 * DigitsValue(SubSeq(s, 1, Len(s) - 1)) + DigitVal(s[Len(s)])
py_int(text) ==
    LET s == text.v
        signed == Len(s) > 0 /\ s[1] \in {"+", "-"}
        body == IF signed THEN Tail(s) ELSE s
    IN  IF body = <<>> \/ \E k \in 1..Len(body) : ~IsDigit(body[k])
        THEN [exc |-> Raise("ValueError", "invalid literal for int()", ""), value |-> 0]
        ELSE [exc |-> NoExc,
              value |-> IF signed /\ s[1] = "-" THEN 0 - DigitsValue(body) ELSE DigitsValue(body)]

\* The characters of file names, in code point order.
CharOrder == <<"-", ".", "0", "1", "2", "3", "4", "5", "6", "7", "8", "9", "_",
               "a", "b", "c", "d", "e", "f", "g", "h", "i", "j", "k", "l", "m",
               "n", "o", "p", "q", "r", "s", "t", "u", "v", "w", "x", "y", "z">>
Ord(c) == CHOOSE k \in 1..Len(CharOrder) : CharOrder[k] = c

\* a < b for two str, as Python compares them: by code point, a prefix first.
StrLess(a, b) ==
    \E k \in 1..Len(b) :
        /\ \A j \in 1..(k - 1) : j <= Len(a) /\ a[j] = b[j]
        /\ k - 1 <= Len(a)
        /\ (k = Len(a) + 1 \/ (k <= Len(a) /\ Ord(a[k]) < Ord(b[k])))

\* sorted(names): insertion of each name into the sorted rest.
RECURSIVE Insert(_, _)
Insert(x, s) ==
    IF s = <<>> THEN <<x>>
    ELSE IF StrLess(Head(s), x) THEN <<Head(s)>> \o Insert(x, Tail(s))
    ELSE <<x>> \o s
\* (mutant: the listing is used as os.listdir returned it)
Unsorted(s) == s
RECURSIVE sorted(_)
sorted(s) == IF s = <<>> THEN <<>> ELSE Insert(Head(s), sorted(Tail(s)))

PropertiesSuffix == <<".", "p", "r", "o", "p", "e", "r", "t", "i", "e", "s">>
\* f.endswith('.properties')
EndsWith(f, suffix) ==
    Len(f) >= Len(suffix) /\ SubSeq(f, Len(f) - Len(suffix) + 1, Len(f)) = suffix

\* str(n) for n >= 0
RECURSIVE py_str(_)
py_str(n) == IF n < 10 THEN <<Digits[n + 1]>> ELSE py_str(n \div 10) \o <<Digits[(n % 10) + 1]>>

\* d.isdigit(): not empty and every character a decimal digit
isdigit(d) == d # <<>> /\ \A k \in 1..Len(d) : IsDigit(d[k])

\* find_version_operations up to the version folder: dirs is the set of the
\* directories of versions_dir; returns [exc, version], version being the
\* name of the folder the files are then listed from.
version_path(version, dirs) ==
    LET version_folders == {d \in dirs : isdigit(d)}
        numbers == {DigitsValue(v) : v \in version_folders}
        latest_version == CHOOSE n \in numbers : \A o \in numbers : o <= n
        latest == version = <<"l", "a", "t", "e", "s", "t">>
        resolved == IF latest THEN py_str(latest_version) ELSE version
    IN  IF latest /\ version_folders = {}
        THEN [exc |-> Raise("ValueError", "No version folders found", ""), version |-> version]
        ELSE IF resolved \notin dirs
        THEN [exc |-> Raise("ValueError", "Version folder not found", resolved), version |-> resolved]
        ELSE [exc |-> NoExc, version |-> resolved]

\* find_version_operations from the listing of the version folder on:
\* listing is os.listdir's answer, each [name, data]; returns [exc, operations].
find_version_operations(listing) ==
    LET properties_files == SelectSeq(listing, LAMBDA f : EndsWith(f.name, PropertiesSuffix))
        names == sorted([k \in 1..Len(properties_files) |-> properties_files[k].name])
        load(filename) ==
            LET f == properties_files[CHOOSE k \in 1..Len(properties_files) :
                                          properties_files[k].name = filename]
            IN  f.data @@ [_filename |-> filename]
    IN  IF properties_files = <<>>
        THEN [exc |-> Raise("ValueError", "No .properties files found", ""), operations |-> <<>>]
        ELSE [exc |-> NoExc, operations |-> [k \in 1..Len(names) |-> load(names[k])]]

\* load_environment_config(env_name): file is [exists, data]; returns [exc, config].
props_load_environment_config(file) ==
    IF ~file.exists
    THEN [exc |-> Raise("FileNotFoundError", "Environment config not found", ""), config |-> PyNone]
    ELSE LET missing == SelectSeq(<<"ES_HOST", "ES_PORT", "ES_SCHEME">>, LAMBDA f : ~Has(file.data, f))
         IN  IF missing # <<>>
             THEN [exc |-> Raise("ValueError", "Missing required fields", Head(missing)), config |-> PyNone]
             ELSE [exc |-> NoExc, config |-> PyDict(file.data)]

Missing(field, operation) == Raise("ValueError", "Missing field", field)

\* One direct request of execute_operation: no retry.
Direct(api, target, id, body, cl, fault) ==
    LET r == EsInvoke(api, target, id, cl, fault)
    IN  Out(r.exc, r.result, r.cluster, <<Call(api, target, id, body)>>, 0)

\* execute_operation(es, operation_props)
execute_operation(operation_props, cl, net) ==
    IF ~Has(operation_props, "operation") THEN Early(Missing("operation", ""), cl)
    ELSE LET operation == operation_props["operation"]
             fault == net.fails > 0
         IN
    CASE operation = "create_index" ->
           IF ~Has(operation_props, "indexname") THEN Early(Missing("indexname", operation), cl)
           ELSE LET index_name == operation_props["indexname"]
                    sh == IF Has(operation_props, "shards") THEN py_int(operation_props["shards"])
                          ELSE [exc |-> NoExc, value |-> 0]
                    rp == IF Has(operation_props, "replicas") THEN py_int(operation_props["replicas"])
                          ELSE [exc |-> NoExc, value |-> 0]
                    s1 == IF Has(operation_props, "shards")
                          THEN [number_of_shards |-> PyInt(sh.value)] ELSE <<>>
                    s2 == IF Has(operation_props, "replicas")
                          THEN [number_of_replicas |-> PyInt(rp.value)] ELSE <<>>
                    settings == PyDict(s1 @@ s2)
                    b1 == IF Truthy(settings) THEN [settings |-> settings] ELSE <<>>
                    js == IF Has(operation_props, "inputjson") THEN json_loads(operation_props["inputjson"])
                          ELSE [exc |-> NoExc, value |-> EmptyDict]
                    body == PyDict(js.value.v @@ b1)
                IN  IF sh.exc.raised THEN Early(sh.exc, cl)
                    ELSE IF rp.exc.raised THEN Early(rp.exc, cl)
                    ELSE IF js.exc.raised THEN Early(js.exc, cl)
                    ELSE IF js.value.t # "dict"
                         THEN Early(Raise("TypeError", "cannot update the body", ""), cl)
                    ELSE Direct("indices.create", index_name.v, <<>>,
                                IF Truthy(body) THEN body ELSE PyNone, cl, fault)
      [] operation = "delete_index" ->
           IF ~Has(operation_props, "indexname") THEN Early(Missing("indexname", operation), cl)
           ELSE LET index_name == operation_props["indexname"]
                    probe == Direct("indices.exists", index_name.v, <<>>, PyNone, cl, net.probe)
                IN  IF probe.exc.raised THEN probe
                    ELSE IF ~probe.result.exists
                         THEN Out(NoExc, [acknowledged |-> TRUE, status |-> "index_not_found"],
                                  cl, probe.calls, 0)
                    ELSE LET r == Direct("indices.delete", index_name.v, <<>>, PyNone, cl, fault)
                         IN  Out(r.exc, r.result, r.cluster, probe.calls \o r.calls, 0)
      [] operation = "update_index" ->
           IF ~Has(operation_props, "indexname") THEN Early(Missing("indexname", operation), cl)
           ELSE IF ~Has(operation_props, "inputjson") THEN Early(Missing("inputjson", operation), cl)
           ELSE LET index_name == operation_props["indexname"]
                    js == json_loads(operation_props["inputjson"])
                IN  IF js.exc.raised THEN Early(js.exc, cl)
                    ELSE Direct("indices.put_settings", index_name.v, <<>>, js.value, cl, fault)
      [] operation = "create_template" ->
           IF ~Has(operation_props, "templatename") THEN Early(Missing("templatename", operation), cl)
           ELSE IF ~Has(operation_props, "inputjson") THEN Early(Missing("inputjson", operation), cl)
           ELSE LET template_name == operation_props["templatename"]
                    js == json_loads(operation_props["inputjson"])
                    \* the patterns of indexpattern, already split at the commas and stripped
                    patterns == IF Has(operation_props, "indexpattern")
                                THEN operation_props["indexpattern"] ELSE PyList(<<>>)
                    body == IF Has(operation_props, "indexpattern") /\ js.value.t = "dict"
                               /\ ~Has(js.value.v, "index_patterns")
                            THEN PyDict(js.value.v @@ [index_patterns |-> patterns])
                            ELSE js.value
                IN  IF js.exc.raised THEN Early(js.exc, cl)
                    ELSE IF Has(operation_props, "indexpattern") /\ js.value.t # "dict"
                         THEN Early(Raise("TypeError", "the body takes no index_patterns", ""), cl)
                    ELSE Direct("indices.put_index_template", template_name.v, <<>>, body, cl, fault)
      [] operation = "delete_template" ->
           IF ~Has(operation_props, "templatename") THEN Early(Missing("templatename", operation), cl)
           ELSE LET template_name == operation_props["templatename"]
                    probe == Direct("indices.exists_index_template", template_name.v, <<>>, PyNone,
                                    cl, net.probe)
                IN  IF probe.exc.raised THEN probe
                    ELSE IF ~probe.result.exists
                         THEN Out(NoExc, [acknowledged |-> TRUE, status |-> "template_not_found"],
                                  cl, probe.calls, 0)
                    ELSE LET r == Direct("indices.delete_index_template", template_name.v, <<>>,
                                         PyNone, cl, fault)
                         IN  Out(r.exc, r.result, r.cluster, probe.calls \o r.calls, 0)
      [] operation = "index_document" ->
           IF ~Has(operation_props, "indexname") THEN Early(Missing("indexname", operation), cl)
           ELSE IF ~Has(operation_props, "inputjson") THEN Early(Missing("inputjson", operation), cl)
           ELSE LET index_name == operation_props["indexname"]
                    js == json_loads(operation_props["inputjson"])
                    doc_id == Get(operation_props, "docid")
                IN  IF js.exc.raised THEN Early(js.exc, cl)
                    ELSE Direct("index", index_name.v, IF Truthy(doc_id) THEN doc_id.v ELSE AutoId,
                                js.value, cl, fault)
      [] OTHER -> Early(UnknownOperation(operation), cl)

\* The tags execute_operation routes.
PropsKinds == {"create_index", "delete_index", "update_index", "create_template",
               "delete_template", "index_document"}

\* env_config.get('STOP_ON_ERROR', 'false').lower() == 'true'
PropsStopOnError(config) ==
    Lower(IF Has(config.v, "STOP_ON_ERROR") THEN config.v["STOP_ON_ERROR"].v
          ELSE <<"f", "a", "l", "s", "e">>) = <<"t", "r", "u", "e">>

(***************************************************************************)
(* The inputs of a run: the files on disk, the environment, the cluster.   *)
(***************************************************************************)
LogsV1 == <<"l", "o", "g", "s", "-", "v", "1">>
BadName == <<"L", "o", "g", "s">>
Tpl == <<"t", "p", "l">>
MyIndex == <<"m", "y", "-", "i", "n", "d", "e", "x">>
Doc1 == PyDict([msg |-> PyStr(<<"h", "i">>)])

\* The operation files a YAML operations tree may hold.
YamlFiles == <<
    [name |-> "001_create_idx.yml", ext |-> "yml", parses |-> TRUE,
     data |-> [operation |-> "create_index", index_name |-> PyStr(LogsV1),
               settings |-> PyDict([number_of_shards |-> PyInt(3), number_of_replicas |-> PyInt(1)])]],
    [name |-> "002_index_doc.yml", ext |-> "yml", parses |-> TRUE,
     data |-> [operation |-> "index_document", index_name |-> PyStr(LogsV1), document |-> Doc1,
               doc_id |-> PyStr(<<"1">>)]],
    [name |-> "003_delete_idx.yml", ext |-> "yml", parses |-> TRUE,
     data |-> [operation |-> "delete_index", index_name |-> PyStr(LogsV1)]],
    [name |-> "004_delete_idx_again.yaml", ext |-> "yaml", parses |-> TRUE,
     data |-> [operation |-> "delete_index", index_name |-> PyStr(LogsV1)]],
    [name |-> "005_delete_tpl.yml", ext |-> "yml", parses |-> TRUE,
     data |-> [operation |-> "delete_index_template", template_name |-> PyStr(Tpl)]],
    [name |-> "006_update_settings.yml", ext |-> "yml", parses |-> TRUE,
     data |-> [operation |-> "update_index_settings", index_name |-> PyStr(LogsV1)]],
    [name |-> "007_reindex.yml", ext |-> "yml", parses |-> TRUE,
     data |-> [operation |-> "reindex", index_name |-> PyStr(LogsV1)]],
    [name |-> "008_no_name.yml", ext |-> "yml", parses |-> TRUE,
     data |-> [operation |-> "create_index"]],
    [name |-> "009_bad_name.yml", ext |-> "yml", parses |-> TRUE,
     data |-> [operation |-> "delete_index", index_name |-> PyStr(BadName)]],
    [name |-> "010_broken.yml", ext |-> "yml", parses |-> FALSE, data |-> <<>>] >>

\* The files of YamlFiles that yaml.safe_load reads.
Readable == {k \in 1..Len(YamlFiles) : YamlFiles[k].parses}

EsSection == PyDict([host |-> PyStr(<<"e", "s">>), port |-> PyInt(9200)])

\* The environment config files <environment>.yml may be.
YamlEnvFiles == <<
    [exists |-> FALSE, data |-> PyNone],
    [exists |-> TRUE, data |-> PyDict([elasticsearch |-> PyDict([host |-> PyStr(<<"e", "s">>)])])],
    [exists |-> TRUE, data |-> PyDict([elasticsearch |-> EsSection])],
    [exists |-> TRUE, data |-> PyDict([elasticsearch |-> EsSection, stop_on_error |-> PyBool(TRUE),
                                       report_file |-> PyStr(<<"r">>)])] >>

\* The files a version folder may hold.
PropsFiles == <<
    [name |-> <<"1">> \o PropertiesSuffix,
     data |-> [operation |-> "create_index", indexname |-> PyStr(MyIndex),
               shards |-> PyStr(<<"3">>), replicas |-> PyStr(<<"1">>)]],
    [name |-> <<"1", "0">> \o PropertiesSuffix,
     data |-> [operation |-> "delete_index", indexname |-> PyStr(MyIndex)]],
    [name |-> <<"2">> \o PropertiesSuffix,
     data |-> [operation |-> "delete_index", indexname |-> PyStr(MyIndex)]],
    [name |-> <<"3">> \o PropertiesSuffix,
     data |-> [operation |-> "delete_template", templatename |-> PyStr(Tpl)]],
    [name |-> <<"4">> \o PropertiesSuffix,
     data |-> [operation |-> "create_index", shards |-> PyStr(<<"3">>)]],
    [name |-> <<"5">> \o PropertiesSuffix,
     data |-> [operation |-> "update_index_settings", indexname |-> PyStr(MyIndex),
               inputjson |-> PyJson(TRUE, PyDict([number_of_replicas |-> PyInt(2)]))]],
    [name |-> <<"6">> \o PropertiesSuffix,
     data |-> [operation |-> "index_document", indexname |-> PyStr(MyIndex),
               inputjson |-> PyJson(TRUE, Doc1)]],
    [name |-> <<"7">> \o PropertiesSuffix,
     data |-> [indexname |-> PyStr(MyIndex)]],
    [name |-> <<"n", "o", "t", "e", "s", ".", "t", "x", "t">>,
     data |-> [operation |-> "create_index", indexname |-> PyStr(MyIndex)]] >>

PropsEnvBase == [ES_HOST |-> PyStr(<<"e", "s">>), ES_PORT |-> PyStr(<<"9", "2", "0", "0">>),
                 ES_SCHEME |-> PyStr(<<"h", "t", "t", "p">>)]

\* The environment config files <environment>.conf may be.
PropsEnvFiles == <<
    [exists |-> FALSE, data |-> <<>>],
    [exists |-> TRUE, data |-> [ES_HOST |-> PyStr(<<"e", "s">>)]],
    [exists |-> TRUE, data |-> PropsEnvBase],
    [exists |-> TRUE, data |-> PropsEnvBase @@ [STOP_ON_ERROR |-> PyStr(<<"T", "r", "u", "e">>)]],
    [exists |-> TRUE, data |-> PropsEnvBase @@ [STOP_ON_ERROR |-> PyStr(<<"f", "a", "l", "s", "e">>)]] >>

\* The values the DRY_RUN environment variable may have ('' when unset).
DryRunValues == {<<>>, <<"T", "r", "u", "e">>}

\* The clusters a run may start against.
InitialClusters == {EmptyCluster,
                    [indices |-> {LogsV1, MyIndex}, templates |-> {Tpl}, docs |-> {}]}

\* What the network does to the requests of one operation: the existence
\* probe fails in transit, or the first `fails` attempts of the call do.
CleanNet == [probe |-> FALSE, fails |-> 0]
NetChoices(used) ==
    {CleanNet} \cup
    (IF used < MaxFaults
     THEN {[probe |-> TRUE, fails |-> 0]} \cup {[probe |-> FALSE, fails |-> k] : k \in 1..DefaultMaxRetries}
     ELSE {})

(***************************************************************************)
(* The state of a run.                                                     *)
(***************************************************************************)
VARIABLES
    orch,        \* which orchestrator runs: "yaml" or "props"
    environ,     \* the process environment: [DRY_RUN]
    fs,          \* the operation files on disk: indices into YamlFiles or PropsFiles
    cluster,     \* the Elasticsearch cluster
    faults,      \* operations disturbed by the network so far
    pc,          \* where run() / main() stands
    env_config,  \* self.env_config / env_config
    es_client,   \* the connection: "none", "open" or "closed"
    operations,  \* self.operations / operations
    stats,       \* self.stats (yaml)
    results,     \* self.results (yaml)
    successful,  \* main()'s local counter (props)
    failed,      \* main()'s local counter (props)
    output,      \* what main() printed for each operation, with its local result (props)
    dry_run,     \* execute_operations' local dry_run
    i,           \* the loop index of the dispatch loop, 1-based
    calls,       \* every request sent to the cluster, tagged with the operation's index
    exit_code,   \* the process exit code, -1 while running
    fn,          \* the function a direct call applies, "run" during a run
    args,        \* the arguments of the direct call
    ret          \* what the direct call returned or raised, Pending before it

vars == <<orch, environ, fs, cluster, faults, pc, env_config, es_client, operations, stats,
          results, successful, failed, output, dry_run, i, calls, exit_code, fn, args, ret>>

\* The variables of a direct call of one function, untouched by a run.
direct == <<fn, args, ret>>
Pending == [pending |-> TRUE]

Tag(cs, k) == [j \in 1..Len(cs) |-> cs[j] @@ [op |-> k]]
PingCall == Call("ping", <<>>, <<>>, PyNone) @@ [op |-> 0]

\* The orders in which the file system may list the files of S.
Listings(S) == {p \in [1..Cardinality(S) -> S] : \A a, b \in 1..Cardinality(S) : a # b => p[a] # p[b]}

Init ==
    /\ orch \in {"yaml", "props"}
    /\ environ \in [DRY_RUN : DryRunValues]
    /\ fs \in {S \in SUBSET (IF orch = "yaml" THEN Readable ELSE 1..Len(PropsFiles)) :
                   Cardinality(S) <= MaxFiles}
    /\ cluster \in InitialClusters
    /\ faults = 0
    /\ pc = "start"
    /\ env_config = PyNone
    /\ es_client = "none"
    /\ operations = <<>>
    /\ stats = [total |-> 0, successful |-> 0, failed |-> 0, skipped |-> 0]
    /\ results = <<>>
    /\ successful = 0
    /\ failed = 0
    /\ output = <<>>
    /\ dry_run = FALSE
    /\ i = 0
    /\ calls = <<>>
    /\ exit_code = -1
    /\ fn = "run" /\ args = <<>> /\ ret = Pending

(***************************************************************************)
(* es_automation.py: ElasticsearchAutomation.run()                         *)
(***************************************************************************)
\* run()'s except branch: cleanup() closes the client if there is one; return 1.
\* (mutant: the except branch returns 1 without cleanup())
YamlFatalWithoutCleanup ==
    /\ es_client' = es_client
    /\ exit_code' = 1
    /\ pc' = "done"
YamlFatal ==
    /\ es_client' = IF es_client = "open" THEN "closed" ELSE es_client
    /\ exit_code' = 1
    /\ pc' = "done"

\* glob('**/*.yml') in any order, then glob('**/*.yaml') in any order.
YamlDiscoveries(S) ==
    {p \in Listings(S) : \A a, b \in 1..Cardinality(S) :
        (YamlFiles[p[a]].ext = "yaml" /\ YamlFiles[p[b]].ext = "yml") => b < a}

\* self.stats['total'] = len(self.operations), the other counters untouched
\* (mutant: the files dropped by the loader are counted as skipped)
LoadedStatsCountsDropped(st, loaded, discovered) ==
    [st EXCEPT !.total = Len(loaded), !.skipped = Len(discovered) - Len(loaded)]
LoadedStats(st, loaded, discovered) == [st EXCEPT !.total = Len(loaded)]

\* Step 1: load_configuration()
YamlLoadConfiguration ==
    /\ UNCHANGED direct
    /\ orch = "yaml" /\ pc = "start"
    /\ \E e \in 1..Len(YamlEnvFiles), p \in YamlDiscoveries(fs) :
         LET r == load_environment_config(YamlEnvFiles[e])
             loaded == load_operation_files([k \in 1..Len(p) |-> YamlFiles[p[k]]])
         IN  IF r.exc.raised
             THEN /\ YamlFatal
                  /\ UNCHANGED <<env_config, operations, stats>>
             ELSE /\ env_config' = r.config
                  /\ operations' = loaded
                  /\ stats' = LoadedStats(stats, loaded, p)
                  /\ pc' = "connect"
                  /\ UNCHANGED <<es_client, exit_code>>
    /\ UNCHANGED <<orch, environ, fs, cluster, faults, results, successful, failed, output, dry_run, i, calls>>

\* Step 2: connect_elasticsearch(): the client's constructor pings the cluster.
YamlConnect ==
    /\ UNCHANGED direct
    /\ orch = "yaml" /\ pc = "connect"
    /\ LET es_config == safe_get(env_config, <<"elasticsearch">>, PyNone) IN
       IF ~Truthy(es_config)
       THEN /\ YamlFatal
            /\ UNCHANGED calls
       ELSE \E ping \in BOOLEAN :
              /\ calls' = Append(calls, PingCall)
              /\ IF ping
                 THEN /\ es_client' = "open"
                      /\ pc' = "execute"
                      /\ UNCHANGED exit_code
                 ELSE YamlFatal
    /\ UNCHANGED <<orch, environ, fs, cluster, faults, env_config, operations, stats, results,
                   successful, failed, output, dry_run, i>>

\* Step 3: execute_operations() up to the loop: the dry-run switch is read.
YamlBeginExecute ==
    /\ UNCHANGED direct
    /\ orch = "yaml" /\ pc = "execute"
    /\ dry_run' = is_dry_run(environ)
    /\ i' = 1
    /\ pc' = IF operations = <<>> THEN "report" ELSE "loop"
    /\ UNCHANGED <<orch, environ, fs, cluster, faults, env_config, es_client, operations, stats,
                   results, successful, failed, output, calls, exit_code>>

\* safe_get(self.env_config, 'stop_on_error', False), tested for truth
YamlStopOnError(config) == Truthy(safe_get(config, <<"stop_on_error">>, PyBool(FALSE)))

\* self.stats[key] += 1
\* (mutant: the counter moves by two)
CountedTwice(st, key) == [st EXCEPT ![key] = @ + 2]
Counted(st, key) == [st EXCEPT ![key] = @ + 1]

\* The record appended to self.results for an operation that returned or raised.
\* (mutant: every record says success)
ResultRecordAlwaysSuccess(operation_type, source_file, out) ==
    [operation |-> operation_type, source_file |-> source_file, status |-> "success",
     result |-> out.result]
ResultRecord(operation_type, source_file, out) ==
    IF ~out.exc.raised
    THEN [operation |-> operation_type, source_file |-> source_file, status |-> "success",
          result |-> out.result]
    ELSE [operation |-> operation_type, source_file |-> source_file, status |-> "failed",
          error |-> out.exc]

\* `if dry_run:` tests the local read before the loop, whatever os.environ holds now.
\* (mutant: the environment is read again for every operation)
DryRunReadAtDispatch(local, env) == is_dry_run(env)
DryRunAtDispatch(local, env) == local

\* The loop ends at a failure under stop_on_error (break) or after the last operation.
\* (mutant: the break is missing)
YamlLoopExitNoBreak(stop, k, n) == k = n
YamlLoopExit(stop, k, n) == stop \/ k = n

\* One iteration of the loop of execute_operations().
YamlExecuteStep ==
    /\ UNCHANGED direct
    /\ orch = "yaml" /\ pc = "loop"
    /\ \E net \in NetChoices(faults) :
         LET operation == operations[i]
             operation_type == Get(operation, "operation")
             source_file == operation["_file_name"]
             clean == _execute_operation(Self, operation, cluster, CleanNet)
             simulate == DryRunAtDispatch(dry_run, environ)
             out == IF simulate THEN _simulate_operation(operation, cluster)
                    ELSE _execute_operation(Self, operation, cluster, net)
             stop == out.exc.raised /\ YamlStopOnError(env_config)
         IN  /\ net # CleanNet => (~simulate /\ out # clean)
             /\ faults' = IF net # CleanNet THEN faults + 1 ELSE faults
             /\ cluster' = out.cluster
             /\ calls' = calls \o Tag(out.calls, i)
             /\ stats' = Counted(stats, IF ~out.exc.raised THEN "successful" ELSE "failed")
             /\ results' = Append(results, ResultRecord(operation_type, source_file, out))
             /\ i' = i + 1
             /\ pc' = IF YamlLoopExit(stop, i, Len(operations)) THEN "report" ELSE "loop"
    /\ UNCHANGED <<orch, environ, fs, env_config, es_client, operations, successful, failed,
                   output, dry_run, exit_code>>

\* Step 4: generate_report(output_file=report_file); writing the file may fail.
YamlGenerateReport ==
    /\ UNCHANGED direct
    /\ orch = "yaml" /\ pc = "report"
    /\ LET report_file == safe_get(env_config, <<"report_file">>, PyNone) IN
       IF Truthy(report_file)
       THEN \E saved \in BOOLEAN :
              IF saved THEN pc' = "cleanup" /\ UNCHANGED <<es_client, exit_code>>
              ELSE YamlFatal
       ELSE pc' = "cleanup" /\ UNCHANGED <<es_client, exit_code>>
    /\ UNCHANGED <<orch, environ, fs, cluster, faults, env_config, operations, stats, results,
                   successful, failed, output, dry_run, i, calls>>

\* Step 5: cleanup(), then the exit code from the failure counter.
YamlCleanup ==
    /\ UNCHANGED direct
    /\ orch = "yaml" /\ pc = "cleanup"
    /\ es_client' = IF es_client = "open" THEN "closed" ELSE es_client
    /\ exit_code' = IF stats.failed > 0 THEN 1 ELSE 0
    /\ pc' = "done"
    /\ UNCHANGED <<orch, environ, fs, cluster, faults, env_config, operations, stats, results,
                   successful, failed, output, dry_run, i, calls>>

(***************************************************************************)
(* executor.py: main()                                                     *)
(***************************************************************************)
\* (mutant: the except branch exits with 0)
PropsFatalExitsZero ==
    /\ exit_code' = 0
    /\ pc' = "done"
\* main()'s except branch: the error is printed and the process exits 1.
PropsFatal ==
    /\ exit_code' = 1
    /\ pc' = "done"

\* Step 1: load_environment_config
PropsLoadEnvironment ==
    /\ UNCHANGED direct
    /\ orch = "props" /\ pc = "start"
    /\ \E e \in 1..Len(PropsEnvFiles) :
         LET r == props_load_environment_config(PropsEnvFiles[e]) IN
         IF r.exc.raised
         THEN PropsFatal /\ UNCHANGED env_config
         ELSE env_config' = r.config /\ pc' = "connect" /\ UNCHANGED exit_code
    /\ UNCHANGED <<orch, environ, fs, cluster, faults, es_client, operations, stats, results,
                   successful, failed, output, dry_run, i, calls>>

\* Step 2: connect_to_elasticsearch: the client is created and pinged.
PropsConnect ==
    /\ UNCHANGED direct
    /\ orch = "props" /\ pc = "connect"
    /\ \E ping \in BOOLEAN :
         /\ calls' = Append(calls, PingCall)
         /\ IF ping
            THEN es_client' = "open" /\ pc' = "find" /\ UNCHANGED exit_code
            ELSE PropsFatal /\ UNCHANGED es_client
    /\ UNCHANGED <<orch, environ, fs, cluster, faults, env_config, operations, stats, results,
                   successful, failed, output, dry_run, i>>

\* Step 3: find_version_operations: os.listdir may list the files in any order.
PropsFindOperations ==
    /\ UNCHANGED direct
    /\ orch = "props" /\ pc = "find"
    /\ \E p \in Listings(fs) :
         LET r == find_version_operations([k \in 1..Len(p) |-> PropsFiles[p[k]]]) IN
         IF r.exc.raised
         THEN PropsFatal /\ UNCHANGED <<operations, i>>
         ELSE operations' = r.operations /\ i' = 1 /\ pc' = "loop" /\ UNCHANGED exit_code
    /\ UNCHANGED <<orch, environ, fs, cluster, faults, env_config, es_client, stats, results,
                   successful, failed, output, dry_run, calls>>

\* The loop ends at a failure under STOP_ON_ERROR (break) or after the last operation.
\* (mutant: the loop breaks at any failure or success, whatever the flag)
PropsLoopExitAlways(stop, k, n) == TRUE
PropsLoopExit(stop, k, n) == stop \/ k = n

\* Step 4: one iteration of the loop of main().
PropsExecuteStep ==
    /\ UNCHANGED direct
    /\ orch = "props" /\ pc = "loop"
    /\ \E net \in NetChoices(faults) :
         LET operation_props == operations[i]
             clean == execute_operation(operation_props, cluster, CleanNet)
             out == execute_operation(operation_props, cluster, net)
             stop == out.exc.raised /\ PropsStopOnError(env_config)
         IN  /\ net # CleanNet => out # clean
             /\ faults' = IF net # CleanNet THEN faults + 1 ELSE faults
             /\ cluster' = out.cluster
             /\ calls' = calls \o Tag(out.calls, i)
             /\ IF ~out.exc.raised
                THEN /\ successful' = successful + 1
                     /\ output' = Append(output, [filename |-> Get(operation_props, "_filename"),
                                                  status |-> "success", result |-> out.result])
                     /\ UNCHANGED failed
                ELSE /\ failed' = failed + 1
                     /\ output' = Append(output, [filename |-> Get(operation_props, "_filename"),
                                                  status |-> "failed", error |-> out.exc])
                     /\ UNCHANGED successful
             /\ i' = i + 1
             /\ pc' = IF PropsLoopExit(stop, i, Len(operations)) THEN "summary" ELSE "loop"
    /\ UNCHANGED <<orch, environ, fs, env_config, es_client, operations, stats, results,
                   dry_run, exit_code>>

\* The summary, es.close() and sys.exit.
PropsFinish ==
    /\ UNCHANGED direct
    /\ orch = "props" /\ pc = "summary"
    /\ es_client' = "closed"
    /\ exit_code' = IF failed > 0 THEN 1 ELSE 0
    /\ pc' = "done"
    /\ UNCHANGED <<orch, environ, fs, cluster, faults, env_config, operations, stats, results,
                   successful, failed, output, dry_run, i, calls>>

Next ==
    \/ YamlLoadConfiguration
    \/ YamlConnect
    \/ YamlBeginExecute
    \/ YamlExecuteStep
    \/ YamlGenerateReport
    \/ YamlCleanup
    \/ PropsLoadEnvironment
    \/ PropsConnect
    \/ PropsFindOperations
    \/ PropsExecuteStep
    \/ PropsFinish

Spec == Init /\ [][Next]_vars

(***************************************************************************)
(* Short runs: a few files, one of which yaml.safe_load may reject, and an *)
(* environment whose DRY_RUN variable may be set or unset under the run.   *)
(***************************************************************************)
ShortYaml == {k \in 1..Len(YamlFiles) :
                YamlFiles[k].name \in {"001_create_idx.yml", "004_delete_idx_again.yaml",
                                       "008_no_name.yml", "010_broken.yml"}}
ShortProps == {k \in 1..Len(PropsFiles) :
                 PropsFiles[k].name \in {<<c>> \o PropertiesSuffix : c \in {"1", "2", "4", "7"}}}

ShortInit ==
    /\ orch \in {"yaml", "props"}
    /\ environ \in [DRY_RUN : DryRunValues]
    /\ fs \in {S \in SUBSET (IF orch = "yaml" THEN ShortYaml ELSE ShortProps) :
                   Cardinality(S) <= MaxFiles}
    /\ cluster \in InitialClusters
    /\ faults = 0
    /\ pc = "start"
    /\ env_config = PyNone
    /\ es_client = "none"
    /\ operations = <<>>
    /\ stats = [total |-> 0, successful |-> 0, failed |-> 0, skipped |-> 0]
    /\ results = <<>>
    /\ successful = 0
    /\ failed = 0
    /\ output = <<>>
    /\ dry_run = FALSE
    /\ i = 0
    /\ calls = <<>>
    /\ exit_code = -1
    /\ fn = "run" /\ args = <<>> /\ ret = Pending

\* os.environ['DRY_RUN'] is given another value while the process runs.
SetDryRun ==
    /\ pc # "done"
    /\ \E v \in DryRunValues : v # environ.DRY_RUN /\ environ' = [environ EXCEPT !.DRY_RUN = v]
    /\ UNCHANGED <<orch, fs, cluster, faults, pc, env_config, es_client, operations, stats,
                   results, successful, failed, output, dry_run, i, calls, exit_code>>
    /\ UNCHANGED direct

ShortNext == Next \/ SetDryRun

ShortSpec == ShortInit /\ [][ShortNext]_vars

(***************************************************************************)
(* Direct calls: one function of the repository applied to one argument    *)
(* drawn from a bounded set, outside any run.                              *)
(***************************************************************************)
\* The largest max_retries and retry_delay a client is constructed with, and
\* the longest streak of transient failures a call meets.
MaxRetriesTried == 4
MaxDelayTried == 2

\* No run is in progress.
NoRun ==
    /\ orch = "none" /\ environ = [DRY_RUN |-> <<>>] /\ fs = {} /\ cluster = EmptyCluster
    /\ faults = 0 /\ pc = "direct" /\ env_config = PyNone /\ es_client = "none"
    /\ operations = <<>> /\ stats = [total |-> 0, successful |-> 0, failed |-> 0, skipped |-> 0]
    /\ results = <<>> /\ successful = 0 /\ failed = 0 /\ output = <<>> /\ dry_run = FALSE
    /\ i = 0 /\ calls = <<>> /\ exit_code = -1
RunVars == <<orch, environ, fs, cluster, faults, pc, env_config, es_client, operations, stats,
             results, successful, failed, output, dry_run, i, calls, exit_code>>

\* ElasticsearchClient(config, max_retries, retry_delay)._retry_operation(call):
\* the wrapped call creates or deletes an index of a cluster that holds it or not.
RetryInputs ==
    [self : [max_retries : 0..MaxRetriesTried, retry_delay : 1..MaxDelayTried],
     api : {"indices.create", "indices.delete"}, target : {LogsV1}, cl : InitialClusters,
     fails : 0..(MaxRetriesTried + 1)]

\* The create_index_template definitions a YAML file may hold: a body or
\* not, index patterns or not, settings or not, mappings or not.
Pattern == <<"l", "o", "g", "s", "-", "*">>
TextField == PyDict([type |-> PyStr(<<"t", "e", "x", "t">>)])
BodyChoices == << <<>>,
                  [body |-> PyDict([index_patterns |-> PyList(<<PyStr(Pattern)>>)])],
                  [body |-> EmptyDict] >>
PatternChoices == << <<>>,
                     [index_patterns |-> PyList(<<PyStr(Pattern)>>)],
                     [index_patterns |-> PyList(<<>>)],
                     [index_patterns |-> PyStr(Pattern)] >>
SettingsChoices == << <<>>,
                      [settings |-> PyDict([number_of_shards |-> PyInt(3)])],
                      [settings |-> PyDict([number_of_shards |-> PyInt(0)])] >>
MappingsChoices == << <<>>,
                      [mappings |-> PyDict([properties |-> PyDict([msg |-> TextField])])] >>
TemplateDefinition(b, p, st, mp) ==
    [operation |-> "create_index_template", template_name |-> PyStr(Tpl)]
        @@ BodyChoices[b] @@ PatternChoices[p] @@ SettingsChoices[st] @@ MappingsChoices[mp]

\* The create_index and create_template definitions a .properties file may hold.
ShardsChoices == << <<>>, [shards |-> PyStr(<<"3">>)], [shards |-> PyStr(<<"1", "2">>)],
                    [shards |-> PyStr(<<"0">>)], [shards |-> PyStr(<<"3", ".", "0">>)] >>
ReplicasChoices == << <<>>, [replicas |-> PyStr(<<"1">>)], [replicas |-> PyStr(<<"0">>)] >>
IndexJsonChoices == << <<>>,
                       [inputjson |-> PyJson(TRUE, PyDict([mappings |-> PyDict([properties |->
                                                               PyDict([msg |-> TextField])])]))],
                       [inputjson |-> PyJson(TRUE, PyDict([settings |->
                                                               PyDict([number_of_shards |-> PyInt(5)])]))],
                       [inputjson |-> PyJson(FALSE, PyNone)] >>
TemplateJsonChoices == << <<>>,
                          [inputjson |-> PyJson(TRUE, PyDict([index_patterns |-> PyList(<<PyStr(Pattern)>>)]))],
                          [inputjson |-> PyJson(TRUE, EmptyDict)] >>
IndexPatternChoices == << <<>>, [indexpattern |-> PyList(<<PyStr(Pattern)>>)] >>
CreateIndexProps(sh, rp, js) ==
    [operation |-> "create_index", indexname |-> PyStr(MyIndex), _filename |-> <<"1">> \o PropertiesSuffix]
        @@ ShardsChoices[sh] @@ ReplicasChoices[rp] @@ IndexJsonChoices[js]
CreateTemplateProps(js, ip) ==
    [operation |-> "create_template", templatename |-> PyStr(Tpl), _filename |-> <<"2">> \o PropertiesSuffix]
        @@ TemplateJsonChoices[js] @@ IndexPatternChoices[ip]

\* The index names validate_index_name is given: every name of at most
\* MaxNameLen characters over NameChars, and names around the length limit.
MaxNameLen == 2
NameChars == {"a", "B", ".", "-", "_", "+"} \cup {InvalidChars[k] : k \in 1..Len(InvalidChars)}
Repeat(c, n) == [k \in 1..n |-> c]
LongNames == {Repeat("a", MaxIndexNameBytes), Repeat("a", MaxIndexNameBytes + 1),
              Repeat("é", 127), Repeat("é", 127) \o <<"a">>, Repeat("é", 128)}
NameInputs == UNION {[1..n -> NameChars] : n \in 0..MaxNameLen} \cup LongNames

\* The values validate_index_settings is given for a shard or replica count.
CountValues == << PyInt(-1), PyInt(0), PyInt(1), PyInt(3), PyStr(<<"3">>), PyFloat(3),
                  PyBool(TRUE), PyBool(FALSE), PyNone >>
OtherSettings == << <<>>, [refresh_interval |-> PyStr(<<"1", "s">>)] >>
SettingsMap(sh, rp, o) ==
    PyDict((IF sh = 0 THEN <<>> ELSE [number_of_shards |-> CountValues[sh]])
           @@ (IF rp = 0 THEN <<>> ELSE [number_of_replicas |-> CountValues[rp]])
           @@ OtherSettings[o])
NotAMapping == << PyNone, PyStr(<<"x">>), PyList(<<>>), PyInt(1) >>

\* The bodies validate_template_body is given.
PatternsValues == << PyList(<<PyStr(Pattern)>>), PyList(<<PyStr(Pattern), PyStr(<<"*">>)>>),
                     PyList(<<>>), PyList(<<PyStr(Pattern), PyInt(5)>>), PyStr(Pattern), PyNone >>
GoodMappings == PyDict([properties |-> PyDict([msg |-> TextField])])
TemplateValues == << EmptyDict,
                     PyDict([settings |-> SettingsMap(4, 3, 1)]),
                     PyDict([settings |-> SettingsMap(2, 0, 1)]),
                     PyDict([settings |-> PyStr(<<"x">>)]),
                     PyDict([mappings |-> GoodMappings]),
                     PyDict([mappings |-> PyDict([properties |-> PyList(<<>>)])]),
                     PyDict([mappings |-> PyDict([properties |-> PyDict([msg |-> PyStr(<<"t">>)])])]),
                     PyDict([settings |-> SettingsMap(4, 3, 1), mappings |-> GoodMappings]),
                     PyDict([settings |-> SettingsMap(4, 3, 1), mappings |-> PyNone]),
                     PyDict([settings |-> SettingsMap(1, 0, 1), mappings |-> GoodMappings]),
                     PyNone,
                     PyInt(1) >>
TemplateBodyValue(p, t, o) ==
    PyDict((IF p = 0 THEN <<>> ELSE [index_patterns |-> PatternsValues[p]])
           @@ (IF t = 0 THEN <<>> ELSE [template |-> TemplateValues[t]])
           @@ (IF o = 0 THEN <<>> ELSE [priority |-> PyInt(o)]))

\* What the network does to the one request of a direct call.
DirectNets == {CleanNet, [probe |-> FALSE, fails |-> 1]}

\* The field values of the definitions the handlers are given: for each
\* field first the values its validator accepts, last the one it rejects.
HandlerValues ==
    [index_name |-> <<PyStr(LogsV1), PyStr(BadName)>>,
     settings |-> <<PyNone, PyDict([number_of_shards |-> PyInt(3)]), PyDict([number_of_shards |-> PyInt(0)])>>,
     mappings |-> <<PyNone, GoodMappings, PyDict([properties |-> PyList(<<>>)])>>,
     document |-> <<Doc1, PyList(<<>>)>>,
     body |-> <<PyDict([index_patterns |-> PyList(<<PyStr(Pattern)>>)]), EmptyDict>>]
HandlerDefinition(kind, nm, st, mp, dc, bd) ==
    [operation |-> kind, index_name |-> HandlerValues.index_name[nm], template_name |-> PyStr(Tpl),
     settings |-> HandlerValues.settings[st], mappings |-> HandlerValues.mappings[mp],
     document |-> HandlerValues.document[dc], doc_id |-> PyStr(<<"1">>),
     body |-> HandlerValues.body[bd]]

\* The public methods of ElasticsearchClient that send an operation.
ClientMethods == {"create_index", "delete_index", "update_index_settings", "create_index_template",
                  "delete_index_template", "index_document", "delete_document"}

\* client.<method>(...) on the index logs-v1, the template tpl or the document 1
ClientCall(method, self, cl, net) ==
    CASE method = "create_index" -> client_create_index(self, PyStr(LogsV1), PyNone, PyNone, cl, net)
      [] method = "delete_index" -> client_delete_index(self, PyStr(LogsV1), cl, net)
      [] method = "update_index_settings" ->
            client_update_index_settings(self, PyStr(LogsV1), HandlerValues.settings[2], cl, net)
      [] method = "create_index_template" ->
            client_create_index_template(self, PyStr(Tpl), HandlerValues.body[1], cl, net)
      [] method = "delete_index_template" -> client_delete_index_template(self, PyStr(Tpl), cl, net)
      [] method = "index_document" -> client_index_document(self, PyStr(LogsV1), Doc1, PyStr(<<"1">>), cl, net)
      [] method = "delete_document" -> client_delete_document(self, PyStr(LogsV1), PyStr(<<"1">>), cl, net)

DirectInit ==
    /\ NoRun
    /\ ret = Pending
    /\ \/ fn = "_retry_operation" /\ args \in RetryInputs
       \/ /\ fn \in {"_create_index_template", "_validate_operation"}
          /\ \E b \in 1..Len(BodyChoices), p \in 1..Len(PatternChoices),
                st \in 1..Len(SettingsChoices), mp \in 1..Len(MappingsChoices),
                cl \in InitialClusters, net \in DirectNets :
                args = [operation |-> TemplateDefinition(b, p, st, mp), cl |-> cl, net |-> net]
       \/ fn = "validate_index_name" /\ \E n \in NameInputs : args = [index_name |-> PyStr(n)]
       \/ /\ fn = "validate_index_settings"
          /\ \/ \E sh \in 0..Len(CountValues), rp \in 0..Len(CountValues), o \in 1..Len(OtherSettings) :
                   args = [settings |-> SettingsMap(sh, rp, o)]
             \/ \E k \in 1..Len(NotAMapping) : args = [settings |-> NotAMapping[k]]
       \/ /\ fn = "validate_template_body"
          /\ \/ \E p \in 0..Len(PatternsValues), t \in 0..Len(TemplateValues), o \in 0..1 :
                   args = [body |-> TemplateBodyValue(p, t, o)]
             \/ \E k \in 1..Len(NotAMapping) : args = [body |-> NotAMapping[k]]
       \/ /\ fn = "execute_operation"
          /\ \E cl \in InitialClusters, net \in DirectNets :
                \/ \E sh \in 1..Len(ShardsChoices), rp \in 1..Len(ReplicasChoices),
                      js \in 1..Len(IndexJsonChoices) :
                      args = [operation_props |-> CreateIndexProps(sh, rp, js), cl |-> cl, net |-> net]
                \/ \E js \in 1..Len(TemplateJsonChoices), ip \in 1..Len(IndexPatternChoices) :
                      args = [operation_props |-> CreateTemplateProps(js, ip), cl |-> cl, net |-> net]
       \/ /\ fn = "_execute_operation"
          /\ \E kind \in IndexKinds \cup TemplateKinds \cup DocumentKinds,
                nm \in 1..Len(HandlerValues.index_name), st \in 1..Len(HandlerValues.settings),
                mp \in 1..Len(HandlerValues.mappings), dc \in 1..Len(HandlerValues.document),
                bd \in 1..Len(HandlerValues.body), cl \in InitialClusters, net \in DirectNets :
                args = [operation |-> HandlerDefinition(kind, nm, st, mp, dc, bd), cl |-> cl, net |-> net]
       \/ /\ fn \in ClientMethods
          /\ \E mr \in (-1)..DefaultMaxRetries, cl \in InitialClusters, net \in NetChoices(0) :
                args = [self |-> [max_retries |-> mr, retry_delay |-> DefaultRetryDelay],
                        cl |-> cl, net |-> net]
       \/ /\ fn = "find_version_operations"
          /\ \E version \in {<<"l", "a", "t", "e", "s", "t">>, <<"9">>, <<"3">>},
                dirs \in SUBSET {<<"9">>, <<"1", "0">>, <<"0", "0", "7">>, <<"v", "2">>} :
                args = [version |-> version, dirs |-> dirs]

CallRetryOperation ==
    /\ fn = "_retry_operation" /\ ret = Pending
    /\ ret' = retry_operation(args.self, args.api, args.target, <<>>, PyNone, args.cl, args.fails)
    /\ UNCHANGED <<fn, args>> /\ UNCHANGED RunVars

\* ConfigParser._validate_operation(operation_data, file_path), as the loader calls it
CallValidateOperation ==
    /\ fn = "_validate_operation" /\ ret = Pending
    /\ ret' = validate_operation(args.operation)
    /\ UNCHANGED <<fn, args>> /\ UNCHANGED RunVars

\* ElasticsearchAutomation._create_index_template(operation)
CallCreateIndexTemplate ==
    /\ fn = "_create_index_template" /\ ret = Pending
    /\ ret' = _create_index_template(Self, args.operation, args.cl, args.net)
    /\ UNCHANGED <<fn, args>> /\ UNCHANGED RunVars

\* executor.py: execute_operation(es, operation_props)
CallExecuteOperation ==
    /\ fn = "execute_operation" /\ ret = Pending
    /\ ret' = execute_operation(args.operation_props, args.cl, args.net)
    /\ UNCHANGED <<fn, args>> /\ UNCHANGED RunVars

\* validators.py, called directly
CallValidateIndexName ==
    /\ fn = "validate_index_name" /\ ret = Pending
    /\ ret' = validate_index_name(args.index_name)
    /\ UNCHANGED <<fn, args>> /\ UNCHANGED RunVars

CallValidateIndexSettings ==
    /\ fn = "validate_index_settings" /\ ret = Pending
    /\ ret' = validate_index_settings(args.settings)
    /\ UNCHANGED <<fn, args>> /\ UNCHANGED RunVars

CallValidateTemplateBody ==
    /\ fn = "validate_template_body" /\ ret = Pending
    /\ ret' = validate_template_body(args.body)
    /\ UNCHANGED <<fn, args>> /\ UNCHANGED RunVars

\* ElasticsearchAutomation._execute_operation(operation)
CallYamlExecuteOperation ==
    /\ fn = "_execute_operation" /\ ret = Pending
    /\ ret' = _execute_operation(Self, args.operation, args.cl, args.net)
    /\ UNCHANGED <<fn, args>> /\ UNCHANGED RunVars

\* ElasticsearchClient(config, max_retries).<method>(...)
CallClient ==
    /\ fn \in ClientMethods /\ ret = Pending
    /\ ret' = ClientCall(fn, args.self, args.cl, args.net)
    /\ UNCHANGED <<fn, args>> /\ UNCHANGED RunVars

\* executor.py: find_version_operations(version, versions_dir), the folder it settles on
CallFindVersionOperations ==
    /\ fn = "find_version_operations" /\ ret = Pending
    /\ ret' = version_path(args.version, args.dirs)
    /\ UNCHANGED <<fn, args>> /\ UNCHANGED RunVars

DirectNext ==
    \/ CallYamlExecuteOperation
    \/ CallClient
    \/ CallFindVersionOperations
    \/ CallValidateIndexName
    \/ CallValidateIndexSettings
    \/ CallValidateTemplateBody
    \/ CallRetryOperation
    \/ CallValidateOperation
    \/ CallCreateIndexTemplate
    \/ CallExecuteOperation

DirectSpec == DirectInit /\ [][DirectNext]_vars

(***************************************************************************)
(* What the claims speak of, in both orchestrators.                        *)
(***************************************************************************)
\* One record per dispatched operation: self.results, or main()'s output.
Records == IF orch = "yaml" THEN results ELSE output
Succeeded == IF orch = "yaml" THEN stats.successful ELSE successful
Failed == IF orch = "yaml" THEN stats.failed ELSE failed
Total == IF orch = "yaml" THEN stats.total ELSE Len(operations)
FileOf(rec) == IF orch = "yaml" THEN rec.source_file ELSE rec.filename
OpFile(op) == IF orch = "yaml" THEN op["_file_name"] ELSE op["_filename"]

\* The environment configuration asks to stop at the first failure.
ConfigLoaded == env_config.t = "dict"
StopFlagSet ==
    /\ ConfigLoaded
    /\ IF orch = "yaml"
       THEN Has(env_config.v, "stop_on_error") /\ env_config.v["stop_on_error"] = PyBool(TRUE)
       ELSE Has(env_config.v, "STOP_ON_ERROR")
            /\ env_config.v["STOP_ON_ERROR"].v \in {<<"t", "r", "u", "e">>, <<"T", "r", "u", "e">>}

\* The dispatch loop was entered and has ended.
DispatchOver == i >= 1 /\ pc \in {"report", "cleanup", "summary", "done"}
\* The DRY_RUN switch is set.
DrySwitch == Lower(environ.DRY_RUN) \in DryRunWords
CallsOf(k) == {j \in 1..Len(calls) : calls[j].op = k}

(***************************************************************************)
(* C1: under stop_on_error, when the k-th operation fails the run halts:   *)
(* no request is sent for the operations k+1..n and the run has exactly k  *)
(* records, in both orchestrators.                                         *)
(***************************************************************************)
C1_StopOnErrorHalts ==
    StopFlagSet =>
        \A k \in 1..Len(Records) :
            Records[k].status = "failed" =>
                /\ Len(Records) = k
                /\ Succeeded + Failed = k
                /\ pc # "loop"
                /\ \A j \in 1..Len(calls) : calls[j].op <= k

C1_Witness ==
    /\ orch = "yaml" /\ StopFlagSet /\ pc = "done"
    /\ Len(operations) = 3 /\ Len(results) = 2
    /\ results[1].status = "success" /\ results[2].status = "failed"

(***************************************************************************)
(* C2: successful + failed <= total in every state, and when stop_on_error *)
(* is not set the two sides are equal once dispatch has ended; total is    *)
(* the number of loaded operation definitions.                             *)
(***************************************************************************)
C2_StatisticsInvariant ==
    /\ Succeeded + Failed <= Total
    /\ (orch = "yaml" /\ pc # "start") => stats.total = Len(operations)
    /\ (DispatchOver /\ ~StopFlagSet) => Succeeded + Failed = Total

C2_Witness ==
    /\ orch = "yaml" /\ DispatchOver /\ ~StopFlagSet
    /\ stats.total = 3 /\ stats.failed = 2 /\ stats.successful = 1

(***************************************************************************)
(* C3: operations run one after another in the order of the loaded list:   *)
(* the k-th record is that of the k-th loaded operation, requests are sent *)
(* in that order and only for operations already counted; and the list the *)
(* properties executor loads is the folder's .properties files in          *)
(* ascending order of file name.                                           *)
(***************************************************************************)
C3_SequentialInListOrder ==
    /\ Len(Records) <= Len(operations)
    /\ Len(Records) = Succeeded + Failed
    /\ \A k \in 1..Len(Records) : FileOf(Records[k]) = OpFile(operations[k])
    /\ \A j \in 1..Len(calls) : calls[j].op <= Len(Records)
    /\ \A j, k \in 1..Len(calls) : j < k => calls[j].op <= calls[k].op
    /\ (orch = "props" /\ i >= 1) =>
          /\ \A j, k \in 1..Len(operations) :
                j < k => StrLess(operations[j]["_filename"], operations[k]["_filename"])
          /\ {operations[k]["_filename"] : k \in 1..Len(operations)}
               = {PropsFiles[f].name : f \in {g \in fs : EndsWith(PropsFiles[g].name, PropertiesSuffix)}}

C3_Witness ==
    /\ orch = "props" /\ pc = "done" /\ Len(output) = 3
    /\ output[1].filename = <<"1">> \o PropertiesSuffix
    /\ output[2].filename = <<"1", "0">> \o PropertiesSuffix
    /\ output[3].filename = <<"2">> \o PropertiesSuffix

(***************************************************************************)
(* C4 (as claimed): in the YAML orchestrator, with 001_create_idx.yml and  *)
(* 002_index_doc.yml in the operations tree, the create-index operation    *)
(* runs before the index-document operation whatever order the discovery   *)
(* returns the files in.                                                   *)
(***************************************************************************)
C4_CreateBeforeIndexDocument ==
    (orch = "yaml" /\ fs = {1, 2}) =>
        \A j, k \in 1..Len(results) :
            (results[j].source_file = "001_create_idx.yml"
             /\ results[k].source_file = "002_index_doc.yml") => j < k

(***************************************************************************)
(* C5 (as claimed): with the dry-run switch set, a run of the YAML         *)
(* orchestrator sends no request at all to the cluster.                    *)
(***************************************************************************)
C5_DryRunNoNetworkCall ==
    (orch = "yaml" /\ DrySwitch) => calls = <<>>

(***************************************************************************)
(* C5 (amended): with the dry-run switch set, the only request a run of    *)
(* the YAML orchestrator sends is the connectivity probe of the client's   *)
(* constructor: no existence check and no operation call.                  *)
(***************************************************************************)
C5_DryRunOnlyConnectivityProbe ==
    (orch = "yaml" /\ DrySwitch) =>
        /\ Len(calls) <= 1
        /\ \A j \in 1..Len(calls) : calls[j] = PingCall

C5_Witness ==
    /\ orch = "yaml" /\ DrySwitch /\ pc = "done" /\ exit_code = 0
    /\ Len(results) = 3 /\ calls = <<PingCall>>

(***************************************************************************)
(* C6: in dry-run mode every loaded operation, whatever its tag and        *)
(* fields, is recorded as a success with the synthetic result              *)
(* {acknowledged, dry_run}; when dispatch has ended successful = total and *)
(* failed = 0.                                                             *)
(***************************************************************************)
C6_DryRunAllSuccessful ==
    (orch = "yaml" /\ DrySwitch) =>
        /\ stats.failed = 0
        /\ \A k \in 1..Len(results) :
              /\ results[k].status = "success"
              /\ results[k].result = [acknowledged |-> TRUE, dry_run |-> TRUE,
                                      operation |-> operations[k]["operation"]]
        /\ DispatchOver => (stats.successful = stats.total /\ Len(results) = Len(operations))

C6_Witness ==
    /\ orch = "yaml" /\ DrySwitch /\ DispatchOver /\ fs = {6, 7, 9}
    /\ stats.successful = 3 /\ stats.total = 3

(***************************************************************************)
(* C7 (as claimed): with the dry-run switch set no mutating request        *)
(* reaches the cluster, in the properties executor as in the YAML          *)
(* orchestrator.                                                           *)
(***************************************************************************)
C7_DryRunNoMutatingCall ==
    DrySwitch => \A j \in 1..Len(calls) : calls[j].api \notin MutatingApis

(***************************************************************************)
(* C8: deleting an index or template that does not exist.                  *)
(***************************************************************************)
\* The operation about to be dispatched deletes an index or a template that
\* the cluster does not hold.
DeleteOfAbsent ==
    /\ pc = "loop"
    /\ LET op == operations[i] IN
       /\ Has(op, "operation")
       /\ IF orch = "yaml"
          THEN \/ op["operation"] = "delete_index" /\ op["index_name"].v \notin cluster.indices
               \/ op["operation"] = "delete_index_template" /\ op["template_name"].v \notin cluster.templates
          ELSE \/ op["operation"] = "delete_index" /\ Has(op, "indexname")
                  /\ op["indexname"].v \notin cluster.indices
               \/ op["operation"] = "delete_template" /\ Has(op, "templatename")
                  /\ op["templatename"].v \notin cluster.templates
\* It is really executed and its name passes the name validator.
DeleteReachesProbe ==
    /\ ~dry_run
    /\ (orch = "yaml" /\ operations[i]["operation"] = "delete_index")
          => ~validate_index_name(operations[i]["index_name"]).raised
NotFoundStatus ==
    IF operations[i]["operation"] = "delete_index" THEN "index_not_found" ELSE "template_not_found"
NoDeleteSent ==
    \A j \in (Len(calls) + 1)..Len(calls') :
        calls'[j].api \notin {"indices.delete", "indices.delete_index_template"}
LastRecord == Records[Len(Records)]

(***************************************************************************)
(* C8 (as claimed): such a delete never raises: it returns acknowledged    *)
(* with status = not_found, sends no delete request and is counted as a    *)
(* success.                                                                *)
(***************************************************************************)
C8_DeleteAbsentNotFound ==
    [][DeleteOfAbsent =>
          /\ LastRecord'.status = "success"
          /\ LastRecord'.result = [acknowledged |-> TRUE, status |-> "not_found"]
          /\ NoDeleteSent
          /\ Succeeded' = Succeeded + 1 /\ Failed' = Failed]_vars

(***************************************************************************)
(* C8 (amended): such a delete, when it is really executed (no dry run)    *)
(* with a name the name validator accepts, sends no delete request; unless *)
(* the existence probe itself fails, it returns acknowledged with status   *)
(* index_not_found (template_not_found for a template) and is counted as a *)
(* success and not as a failure, so repeating a delete succeeds.           *)
(***************************************************************************)
C8_DeleteAbsentAcknowledged ==
    [][(DeleteOfAbsent /\ DeleteReachesProbe) =>
          /\ NoDeleteSent
          /\ \/ /\ LastRecord'.status = "success"
                /\ LastRecord'.result = [acknowledged |-> TRUE, status |-> NotFoundStatus]
                /\ Succeeded' = Succeeded + 1 /\ Failed' = Failed
             \/ /\ LastRecord'.status = "failed"
                /\ LastRecord'.error.type = "ConnectionError"
                /\ LastRecord'.error.msg \in {"indices.exists", "indices.exists_index_template"}]_vars

C8_Witness ==
    /\ orch = "yaml" /\ pc = "done" /\ Len(results) = 2
    /\ results[1].operation = "delete_index" /\ results[1].status = "success"
    /\ results[1].result = Acknowledged
    /\ results[2].operation = "delete_index" /\ results[2].status = "success"
    /\ results[2].result = [acknowledged |-> TRUE, status |-> "index_not_found"]
    /\ stats.successful = 2 /\ stats.failed = 0

(***************************************************************************)
(* C9: an operation whose tag is not a recognised kind.                    *)
(***************************************************************************)
IsUnknown(op) ==
    /\ Has(op, "operation")
    /\ op["operation"] \notin (IF orch = "yaml" THEN IndexKinds \cup TemplateKinds \cup DocumentKinds
                               ELSE PropsKinds)

(***************************************************************************)
(* C9 (as claimed): it is recorded as one failed operation with an         *)
(* 'unknown operation' error and the operations after it are still         *)
(* executed.                                                               *)
(***************************************************************************)
C9_UnknownDoesNotAbort ==
    \A k \in 1..Len(Records) :
        IsUnknown(operations[k]) =>
            /\ Records[k].status = "failed"
            /\ Records[k].error.msg = "Unknown operation type"
            /\ DispatchOver => Len(Records) = Len(operations)

(***************************************************************************)
(* C9 (amended): when it is really executed (no dry run) it is recorded as *)
(* one failed operation with an 'unknown operation' error and sends no     *)
(* request; the operations after it are still executed if stop_on_error is *)
(* not set, and the run halts at it if stop_on_error is set.               *)
(***************************************************************************)
C9_UnknownRecordedAsFailure ==
    \A k \in 1..Len(Records) :
        (IsUnknown(operations[k]) /\ ~dry_run) =>
            /\ Records[k].status = "failed"
            /\ Records[k].error = Raise("ValueError", "Unknown operation type", operations[k]["operation"])
            /\ CallsOf(k) = {}
            /\ DispatchOver => Len(Records) = (IF StopFlagSet THEN k ELSE Len(operations))

C9_Witness ==
    /\ orch = "yaml" /\ ~StopFlagSet /\ pc = "done" /\ Len(results) = 3
    /\ IsUnknown(operations[1]) /\ results[1].status = "failed"
    /\ results[2].status = "success" /\ CallsOf(2) # {}

(***************************************************************************)
(* C10: an operation definition that lacks a field required for its kind.  *)
(***************************************************************************)
\* The required fields of the per-kind table that a YAML definition lacks.
YamlRequired(kind) ==
    CASE kind \in {"create_index", "delete_index"} -> <<"index_name">>
      [] kind = "update_index_settings" -> <<"index_name", "settings">>
      [] kind \in {"create_index_template", "delete_index_template"} -> <<"template_name">>
      [] kind = "index_document" -> <<"index_name", "document">>
      [] kind = "delete_document" -> <<"index_name", "doc_id">>
      [] OTHER -> <<>>
\* The fields execute_operation demands of a properties definition.
PropsRequired(kind) ==
    CASE kind \in {"create_index", "delete_index"} -> <<"indexname">>
      [] kind \in {"update_index", "index_document"} -> <<"indexname", "inputjson">>
      [] kind = "create_template" -> <<"templatename", "inputjson">>
      [] kind = "delete_template" -> <<"templatename">>
      [] OTHER -> <<>>
MissingFields(data) ==
    IF ~Has(data, "operation") THEN <<>>
    ELSE SelectSeq(IF orch = "yaml" THEN YamlRequired(data["operation"])
                   ELSE PropsRequired(data["operation"]),
                   LAMBDA f : ~Has(data, f))
\* The files of the run that reach the loader, as [name, data].
RunFiles ==
    IF orch = "yaml" THEN {[name |-> YamlFiles[f].name, data |-> YamlFiles[f].data] : f \in fs}
    ELSE {[name |-> PropsFiles[f].name, data |-> PropsFiles[f].data] :
             f \in {g \in fs : EndsWith(PropsFiles[g].name, PropertiesSuffix)}}

(***************************************************************************)
(* C10 (as claimed): in both orchestrators it fails with an error naming   *)
(* the missing field and is recorded as a failed operation (here for runs  *)
(* that execute every operation: no dry run, no stop_on_error).            *)
(***************************************************************************)
C10_MissingFieldRecordedAsFailure ==
    (DispatchOver /\ ~dry_run /\ ~StopFlagSet) =>
        \A f \in RunFiles :
            MissingFields(f.data) # <<>> =>
                \E k \in 1..Len(Records) :
                    /\ FileOf(Records[k]) = f.name
                    /\ Records[k].status = "failed"
                    /\ Records[k].error.arg = Head(MissingFields(f.data))

(***************************************************************************)
(* C10 (amended): in the properties executor a definition lacking a field  *)
(* its kind requires fails with an error naming the first missing field,   *)
(* sends no request and is counted as failed.  In the YAML orchestrator a  *)
(* definition lacking index_name, template_name, document or doc_id is     *)
(* dropped when the files are loaded (it is in neither total nor the       *)
(* results), and one lacking only settings for update_index_settings is,   *)
(* when really executed, recorded as failed with a KeyError naming         *)
(* settings and sends no request.                                          *)
(***************************************************************************)
C10_MissingFieldHandling ==
    /\ orch = "props" =>
          \A k \in 1..Len(output) :
              MissingFields(operations[k]) # <<>> =>
                  /\ output[k].status = "failed"
                  /\ output[k].error = Raise("ValueError", "Missing field", Head(MissingFields(operations[k])))
                  /\ CallsOf(k) = {}
                  /\ failed >= 1
    /\ (orch = "yaml" /\ pc # "start" /\ ConfigLoaded) =>
          /\ \A f \in RunFiles :
                (MissingFields(f.data) # <<>> /\ Head(MissingFields(f.data)) # "settings") =>
                    /\ \A k \in 1..Len(operations) : operations[k]["_file_name"] # f.name
                    /\ \A k \in 1..Len(results) : results[k].source_file # f.name
          /\ stats.total = Cardinality({f \in RunFiles :
                 MissingFields(f.data) = <<>> \/ Head(MissingFields(f.data)) = "settings"})
          /\ \A k \in 1..Len(results) :
                (MissingFields(operations[k]) # <<>> /\ ~dry_run) =>
                    /\ MissingFields(operations[k]) = <<"settings">>
                    /\ results[k].status = "failed"
                    /\ results[k].error = Raise("KeyError", "", "settings")
                    /\ CallsOf(k) = {}
                    /\ stats.failed >= 1

C10_Witness ==
    /\ orch = "yaml" /\ pc = "done" /\ fs = {1, 6, 8}
    /\ Len(results) = 2 /\ stats.total = 2 /\ stats.failed = 1
    /\ \E k \in 1..2 : results[k].source_file = "006_update_settings.yml"
                       /\ results[k].status = "failed"
                       /\ results[k].error = Raise("KeyError", "", "settings")

(***************************************************************************)
(* C11, C12: the retry helper, called directly.                            *)
(***************************************************************************)
RetryReturned == fn = "_retry_operation" /\ ret # Pending
\* Attempt k (1-based) of the call fails: in transit for the first `fails`
\* attempts, and at the server whenever the server rejects the request.
AttemptError(k) == EsInvoke(args.api, args.target, <<>>, args.cl, k <= args.fails).exc
Attempts == Len(ret.calls)

(***************************************************************************)
(* C11: the helper makes at most max_retries attempts; it returns the      *)
(* result of the first attempt that succeeds and attempts nothing after    *)
(* it; if every attempt fails it makes exactly max_retries attempts and    *)
(* raises the error of the last one unchanged, whatever the errors are.    *)
(***************************************************************************)
C11_RetryAttempts ==
    RetryReturned =>
        LET n == args.self.max_retries
            ok == {k \in 1..n : ~AttemptError(k).raised}
        IN  /\ Attempts <= n
            /\ ok # {} =>
                  /\ ~ret.exc.raised
                  /\ \A k \in ok : Attempts <= k
                  /\ Attempts \in ok
                  /\ ret.result = EsInvoke(args.api, args.target, <<>>, args.cl, FALSE).result
            /\ (ok = {} /\ n >= 1) =>
                  /\ Attempts = n
                  /\ ret.exc = AttemptError(n)
                  /\ ret.cluster = args.cl

\* A call rejected by the server at every attempt after failing twice in transit.
C11_Witness ==
    /\ RetryReturned /\ args.self.max_retries = DefaultMaxRetries /\ args.fails = 2
    /\ Attempts = DefaultMaxRetries
    /\ ret.exc.raised /\ ret.exc.type = "RequestError"

(***************************************************************************)
(* C12: a call that takes a attempts sleeps a - 1 times retry_delay in     *)
(* all: the same delay between two consecutive attempts, none after the    *)
(* last.                                                                   *)
(***************************************************************************)
C12_RetryDelay ==
    (RetryReturned /\ Attempts >= 1) => ret.slept = (Attempts - 1) * args.self.retry_delay

C12_Witness ==
    /\ RetryReturned /\ args.self = Self /\ Attempts = 3 /\ ret.exc.raised
    /\ ret.slept = 4

(***************************************************************************)
(* C13, C14: fatal setup errors and the exit code.                         *)
(***************************************************************************)
\* The probe of the constructor was sent and no client came of it.
ProbeFailed == Len(calls) >= 1 /\ es_client = "none"
\* The run ended without an environment configuration.
ConfigRejected == pc = "done" /\ env_config = PyNone
\* The operations directory (the version folder) holds no operation file.
NoOperationFiles ==
    IF orch = "yaml" THEN fs = {}
    ELSE \A f \in fs : ~EndsWith(PropsFiles[f].name, PropertiesSuffix)

(***************************************************************************)
(* C13: if the connectivity probe fails, or the environment configuration  *)
(* is missing or invalid, the run is over with exit code 1, no operation   *)
(* was executed, no request other than the probe was sent and no result    *)
(* record exists.                                                          *)
(***************************************************************************)
C13_FatalSetup ==
    (orch # "none" /\ (ProbeFailed \/ ConfigRejected)) =>
        /\ pc = "done" /\ exit_code = 1
        /\ Records = <<>> /\ Succeeded = 0 /\ Failed = 0 /\ i = 0
        /\ \A j \in 1..Len(calls) : calls[j] = PingCall

\* The probe fails although three operations are ready to run.
C13_Witness ==
    /\ orch = "props" /\ ProbeFailed /\ Cardinality(fs) = 3 /\ ~NoOperationFiles
    /\ ConfigLoaded /\ exit_code = 1

(***************************************************************************)
(* C14 (as claimed): the exit code is 0 exactly when there was no fatal    *)
(* setup error and every operation succeeded, where a missing or invalid   *)
(* configuration, a failed probe and an empty set of operation files are   *)
(* fatal setup errors in both orchestrators.                               *)
(***************************************************************************)
C14_ExitCode ==
    (orch # "none" /\ pc = "done") =>
        /\ exit_code \in {0, 1}
        /\ exit_code = 0 <=> /\ ~(ProbeFailed \/ ConfigRejected \/ NoOperationFiles)
                             /\ Failed = 0

(***************************************************************************)
(* C15 (as claimed): a definition that is really executed is rejected as   *)
(* unknown exactly when its tag is none of the 7 kinds, in both            *)
(* orchestrators.                                                          *)
(***************************************************************************)
SevenKinds == {"create_index", "delete_index", "update_index_settings", "create_index_template",
               "delete_index_template", "index_document", "delete_document"}
C15_SameSevenKinds ==
    \A k \in 1..Len(Records) :
        (~dry_run /\ Has(operations[k], "operation")) =>
            ((Records[k].status = "failed" /\ Records[k].error.msg = "Unknown operation type")
                <=> operations[k]["operation"] \notin SevenKinds)

(***************************************************************************)
(* C16: create_index_template with just a template name.                   *)
(***************************************************************************)
Returned(f) == fn = f /\ ret # Pending
\* The definition carries nothing but its tag and its name (and, in a
\* properties file, the file name the loader adds).
JustTheName(def) == DOMAIN def \subseteq {"operation", "template_name", "templatename", "_filename"}
TemplateCalls(r) == {j \in 1..Len(r.calls) : r.calls[j].api = "indices.put_index_template"}

(***************************************************************************)
(* C16 (as claimed): a create_index_template definition carrying just a    *)
(* template name passes the checks of the dispatcher and a create-template *)
(* call is made.                                                           *)
(***************************************************************************)
C16_TemplateNameSuffices ==
    /\ (Returned("_create_index_template") /\ JustTheName(args.operation)) =>
          (~ret.exc.raised \/ ret.exc.type = "ConnectionError") /\ TemplateCalls(ret) # {}
    /\ (Returned("execute_operation") /\ args.operation_props["operation"] = "create_template"
        /\ JustTheName(args.operation_props)) =>
          (~ret.exc.raised \/ ret.exc.type = "ConnectionError") /\ TemplateCalls(ret) # {}

(***************************************************************************)
(* C16 (amended): a create_index_template definition carrying just a       *)
(* template name passes the check made when the file is loaded, but when   *)
(* executed it is rejected for its missing index_patterns and no           *)
(* create-template call is made; one that carries in addition only a       *)
(* non-empty list of string index patterns results in a create-template    *)
(* call whose body holds just these patterns; no call is ever made for a   *)
(* body without index_patterns.  In the properties executor create_template*)
(* with just templatename is rejected for its missing inputjson.           *)
(***************************************************************************)
C16_TemplateNeedsPatterns ==
    /\ (Returned("_validate_operation") /\ JustTheName(args.operation)) => ret = NoExc
    /\ Returned("_create_index_template") =>
          LET def == args.operation IN
          /\ JustTheName(def) =>
                /\ ret.exc = Raise("ValueError", "Index template must have 'index_patterns'", "")
                /\ ret.calls = <<>> /\ ret.cluster = args.cl
          /\ (DOMAIN def = {"operation", "template_name", "index_patterns"}
              /\ def["index_patterns"] = PyList(<<PyStr(Pattern)>>)) =>
                /\ ~ret.exc.raised /\ Tpl \in ret.cluster.templates
                /\ Len(ret.calls) = args.net.fails + 1
                /\ \A j \in 1..Len(ret.calls) :
                      ret.calls[j] = Call("indices.put_index_template", Tpl, <<>>,
                                          PyDict([index_patterns |-> PyList(<<PyStr(Pattern)>>)]))
          /\ TemplateCalls(ret) # {} =>
                \A j \in TemplateCalls(ret) : Has(ret.calls[j].body.v, "index_patterns")
    /\ (Returned("execute_operation") /\ args.operation_props["operation"] = "create_template"
        /\ JustTheName(args.operation_props)) =>
          ret.exc = Raise("ValueError", "Missing field", "inputjson") /\ ret.calls = <<>>

C16_Witness ==
    /\ Returned("_create_index_template") /\ JustTheName(args.operation)
    /\ ret.exc.raised /\ ret.calls = <<>>

(***************************************************************************)
(* C20: create_index in the properties executor.                           *)
(***************************************************************************)
\* The numbers the shards and replicas texts of the definitions denote.
Denotes(text) ==
    CASE text = <<"3">> -> 3
      [] text = <<"1">> -> 1
      [] text = <<"0">> -> 0
      [] text = <<"1", "2">> -> 12
      [] OTHER -> -1

(***************************************************************************)
(* C20: a create_index definition with indexname N, shards s, replicas r   *)
(* and no inputjson makes exactly one create-index call for N with body    *)
(* {settings: {number_of_shards: s, number_of_replicas: r}}, s and r as    *)
(* integers, and no mappings key; with neither shards, replicas nor        *)
(* inputjson the call has no body.                                         *)
(***************************************************************************)
C20_CreateIndexBody ==
    (Returned("execute_operation") /\ args.operation_props["operation"] = "create_index"
     /\ ~Has(args.operation_props, "inputjson")) =>
        LET def == args.operation_props IN
        /\ (Has(def, "shards") /\ Has(def, "replicas")
            /\ Denotes(def["shards"].v) >= 0 /\ Denotes(def["replicas"].v) >= 0) =>
              ret.calls = <<Call("indices.create", def["indexname"].v, <<>>,
                                 PyDict([settings |-> PyDict(
                                     [number_of_shards |-> PyInt(Denotes(def["shards"].v)),
                                      number_of_replicas |-> PyInt(Denotes(def["replicas"].v))])]))>>
        /\ (~Has(def, "shards") /\ ~Has(def, "replicas")) =>
              ret.calls = <<Call("indices.create", def["indexname"].v, <<>>, PyNone)>>

\* The scenario of the specification: my-index, shards=3, replicas=1.
C20_Witness ==
    /\ Returned("execute_operation")
    /\ args.operation_props = CreateIndexProps(2, 2, 1)
    /\ args.cl = EmptyCluster /\ ~ret.exc.raised
    /\ ret.cluster.indices = {MyIndex}
    /\ Len(ret.calls) = 1 /\ ret.calls[1].body.v["settings"].v["number_of_shards"] = PyInt(3)

(***************************************************************************)
(* C17: validate_index_name.                                               *)
(***************************************************************************)
\* The rules of the specification a name violates.
ForbiddenChars == {"\\", "/", "*", "?", "\"", "<", ">", "|", " ", ",", "#"}
\* The length of a name in bytes: one per character, two for a two-byte one.
EncodedBytes(n) == Len(SelectSeq(n, LAMBDA c : c = "é")) + Len(n)
RulesViolated(n) ==
    {r \in {"empty", "uppercase", "length", "dots", "start", "characters"} :
        CASE r = "empty" -> Len(n) = 0
          [] r = "uppercase" -> \E k \in 1..Len(n) : n[k] \in UpperChars
          [] r = "length" -> EncodedBytes(n) > 255
          [] r = "dots" -> n = <<".">> \/ n = <<".", ".">>
          [] r = "start" -> Len(n) > 0 /\ n[1] \in {"-", "_", "+"}
          [] r = "characters" -> \E k \in 1..Len(n) : n[k] \in ForbiddenChars}
\* The error that names a rule.
NamesRule(e, r, n) ==
    /\ e.raised /\ e.type = "ValueError"
    /\ CASE r = "empty" -> e.msg = "Index name cannot be empty"
         [] r = "uppercase" -> e.msg = "Index name must be lowercase"
         [] r = "length" -> e.msg = "Index name must be 255 bytes or less"
         [] r = "dots" -> e.msg = "Index name cannot be '.' or '..'"
         [] r = "start" -> e.msg = "Index name cannot start with" /\ e.arg = n[1]
         [] r = "characters" -> e.msg = "Index name cannot contain" /\ e.arg \in ForbiddenChars
                                /\ \E k \in 1..Len(n) : n[k] = e.arg

(***************************************************************************)
(* C17: validate_index_name accepts every name that violates no rule       *)
(* (non-empty, no uppercase letter, at most 255 bytes in UTF-8, not '.' or *)
(* '..', no leading '-', '_' or '+', none of the forbidden characters),    *)
(* rejects every other name, and rejects a name that violates exactly one  *)
(* rule with the error that names this rule.                               *)
(***************************************************************************)
C17_IndexNameRules ==
    Returned("validate_index_name") =>
        LET n == args.index_name.v
            broken == RulesViolated(n)
        IN  /\ broken = {} <=> ret = NoExc
            /\ \A r \in broken : broken = {r} => NamesRule(ret, r, n)

\* A name of 128 characters and 256 bytes is rejected for its length.
C17_Witness ==
    /\ Returned("validate_index_name")
    /\ Len(args.index_name.v) = 128 /\ RulesViolated(args.index_name.v) = {"length"}
    /\ ret.raised

(***************************************************************************)
(* C18 (as claimed): validate_index_settings rejects a value iff it is not *)
(* a mapping, or number_of_shards is present and is not an integer greater *)
(* than 0, or number_of_replicas is present and is not an integer greater  *)
(* than or equal to 0; no value is coerced to an integer.                  *)
(***************************************************************************)
IsInteger(x) == x.t = "int"
C18_SettingsRejectedIff ==
    Returned("validate_index_settings") =>
        LET st == args.settings IN
        ret.raised <=>
            \/ st.t # "dict"
            \/ st.t = "dict" /\ Has(st.v, "number_of_shards")
               /\ ~(IsInteger(st.v["number_of_shards"]) /\ st.v["number_of_shards"].v > 0)
            \/ st.t = "dict" /\ Has(st.v, "number_of_replicas")
               /\ ~(IsInteger(st.v["number_of_replicas"]) /\ st.v["number_of_replicas"].v >= 0)

(***************************************************************************)
(* C19 (as claimed): validate_template_body accepts a body iff             *)
(* index_patterns is present and is a non-empty list of strings and the    *)
(* nested template.settings and template.mappings, when present, pass      *)
(* validate_index_settings and validate_index_mappings; any other body is  *)
(* rejected with an error.                                                 *)
(***************************************************************************)
PatternsAreValid(body) ==
    /\ body.t = "dict" /\ Has(body.v, "index_patterns")
    /\ LET ps == body.v["index_patterns"] IN
       /\ ps.t = "list" /\ Len(ps.v) > 0
       /\ \A k \in 1..Len(ps.v) : ps.v[k].t = "str"
\* The value nested under template at key, if there is one.
NestedPresent(body, key) ==
    /\ body.t = "dict" /\ Has(body.v, "template")
    /\ body.v["template"].t = "dict" /\ Has(body.v["template"].v, key)
C19_TemplateBodyAcceptedIff ==
    Returned("validate_template_body") =>
        LET body == args.body IN
        ret = NoExc <=>
            /\ PatternsAreValid(body)
            /\ NestedPresent(body, "settings") =>
                  ~validate_index_settings(body.v["template"].v["settings"]).raised
            /\ NestedPresent(body, "mappings") =>
                  ~validate_index_mappings(body.v["template"].v["mappings"]).raised

(***************************************************************************)
(* C21: a file or definition that cannot be used.                          *)
(***************************************************************************)
\* The file parses and its definition passes the loader's validation.
Loads(f) ==
    /\ YamlFiles[f].parses
    /\ Has(YamlFiles[f].data, "operation")
    /\ MissingFields(YamlFiles[f].data) \in {<<>>, <<"settings">>}
\* A properties definition without a known tag or without a required field.
Malformed(op) == ~Has(op, "operation") \/ IsUnknown(op) \/ MissingFields(op) # <<>>
FailedRecords == {k \in 1..Len(Records) : Records[k].status = "failed"}

\* The YAML half of the claim: the loaded list is exactly the discovered
\* files that parse and validate, a skipped file is in neither total nor
\* failed and has no record.
SkippedFilesLeaveNoTrace ==
    (orch = "yaml" /\ ConfigLoaded) =>
        /\ {operations[k]["_file_name"] : k \in 1..Len(operations)}
              = {YamlFiles[f].name : f \in {g \in fs : Loads(g)}}
        /\ Len(operations) = Cardinality({g \in fs : Loads(g)})
        /\ stats.total = Len(operations)
        /\ \A k \in 1..Len(results) :
              results[k].source_file \in {YamlFiles[f].name : f \in {g \in fs : Loads(g)}}
        /\ stats.failed = Cardinality(FailedRecords)

(***************************************************************************)
(* C21 (as claimed): a YAML file that fails to parse or to validate is     *)
(* skipped and leaves no trace in the list, the counters or the records;   *)
(* a malformed properties definition is recorded as a failed operation and *)
(* the run is not aborted: every loaded operation is still dispatched.     *)
(***************************************************************************)
C21_MalformedNeverAborts ==
    /\ SkippedFilesLeaveNoTrace
    /\ orch = "props" =>
          \A k \in 1..Len(output) :
              Malformed(operations[k]) =>
                  /\ output[k].status = "failed"
                  /\ DispatchOver => Len(output) = Len(operations)

(***************************************************************************)
(* C21 (amended): the YAML half as claimed; a malformed properties         *)
(* definition is recorded and counted as a failed operation, the run goes  *)
(* on to its summary and exits 1, and the operations after it are          *)
(* dispatched unless STOP_ON_ERROR is set, in which case the run halts at  *)
(* it.                                                                     *)
(***************************************************************************)
C21_MalformedSkippedOrFailed ==
    /\ SkippedFilesLeaveNoTrace
    /\ orch = "props" =>
          \A k \in 1..Len(output) :
              Malformed(operations[k]) =>
                  /\ output[k].status = "failed"
                  /\ failed >= 1
                  /\ DispatchOver => Len(output) = (IF StopFlagSet THEN k ELSE Len(operations))
                  /\ pc = "done" => exit_code = 1

C21_Witness ==
    /\ orch = "yaml" /\ pc = "done" /\ Cardinality(fs) = 3
    /\ \E f, g \in fs : ~YamlFiles[f].parses /\ YamlFiles[g].name = "008_no_name.yml"
    /\ Len(operations) = 1 /\ stats.total = 1 /\ Len(results) = 1 /\ stats.failed = 0

(***************************************************************************)
(* C22: in the YAML orchestrator no step ever decreases successful, failed *)
(* or skipped; each step of the dispatch loop raises exactly one of        *)
(* successful and failed, by exactly 1, and leaves total and skipped as    *)
(* they were; total changes only when the configuration is loaded.         *)
(***************************************************************************)
C22_CountersFrame ==
    [][orch = "yaml" =>
          /\ stats'.successful >= stats.successful
          /\ stats'.failed >= stats.failed
          /\ stats'.skipped >= stats.skipped
          /\ pc # "start" => stats'.total = stats.total
          /\ pc = "loop" =>
                /\ (stats'.successful - stats.successful) + (stats'.failed - stats.failed) = 1
                /\ stats'.skipped = stats.skipped
                /\ Len(results') = Len(results) + 1]_vars

C22_Witness ==
    /\ orch = "yaml" /\ pc = "loop" /\ i = 3
    /\ stats.total = 3 /\ stats.successful = 1 /\ stats.failed = 1 /\ stats.skipped = 0

(***************************************************************************)
(* C23: the dry-run switch and a run in progress.                          *)
(***************************************************************************)
\* Record k is the synthetic result of a simulation.
Simulated(k) == results[k].status = "success" /\ "dry_run" \in DOMAIN results[k].result
\* Every dispatched operation was treated as the value read for the run says.
OneModePerRun ==
    (orch = "yaml" /\ i >= 1) =>
        \A k \in 1..Len(results) :
            IF dry_run THEN Simulated(k) /\ CallsOf(k) = {}
            ELSE ~Simulated(k) /\ CallsOf(k) # {}

(***************************************************************************)
(* C23: the YAML orchestrator reads the dry-run switch once per run, when  *)
(* execute_operations begins and before the first dispatch; whatever       *)
(* happens to the DRY_RUN variable afterwards, either every dispatched     *)
(* operation of the run is simulated (no request sent) or every one is     *)
(* really executed (requests sent).                                        *)
(***************************************************************************)
C23_DryRunReadOncePerRun ==
    [][orch = "yaml" =>
          /\ pc # "execute" => dry_run' = dry_run
          /\ (pc = "execute" /\ pc' # "execute") => (dry_run' = DrySwitch /\ results = <<>>)
          /\ (pc = "execute" /\ pc' = "execute") => dry_run' = dry_run
          /\ OneModePerRun']_vars

C23_Witness ==
    /\ orch = "yaml" /\ pc = "done" /\ Len(results) = 2
    /\ dry_run /\ ~DrySwitch
    /\ Simulated(1) /\ Simulated(2) /\ calls = <<PingCall>>

(***************************************************************************)
(* C24: the YAML handlers validate before they call the client.            *)
(***************************************************************************)
\* A field of the definition that its handler validates holds the value of
\* HandlerValues that breaks the validator's rule (an upper-case index
\* name, zero shards, properties that is a list, a document or settings
\* that is no mapping, a template body without index patterns).
Rejected(op) ==
    LET kind == op.operation
        last(field) == HandlerValues[field][Len(HandlerValues[field])]
    IN  \/ kind \in IndexKinds \cup DocumentKinds /\ op.index_name = last("index_name")
        \/ kind \in {"create_index", "update_index_settings"} /\ op.settings = last("settings")
        \/ kind = "update_index_settings" /\ op.settings = PyNone
        \/ kind = "create_index" /\ op.mappings = last("mappings")
        \/ kind = "index_document" /\ op.document = last("document")
        \/ kind = "create_index_template" /\ op.body = last("body")

(***************************************************************************)
(* C24: in the YAML orchestrator, when a validator rejects the name, the   *)
(* settings, the mappings, the document or the template body of an         *)
(* operation, the handler raises the validator's ValueError (which the     *)
(* dispatch loop records as a failure) without any client method invoked:  *)
(* no request is sent and the cluster is unchanged; when no validator      *)
(* rejects, the client is called and a request is sent.                    *)
(***************************************************************************)
C24_ValidationPrecedesClient ==
    Returned("_execute_operation") =>
        IF Rejected(args.operation)
        THEN /\ ret.exc.raised /\ ret.exc.type = "ValueError"
             /\ ret.calls = <<>>
             /\ ret.cluster = args.cl
        ELSE ret.calls # <<>>

C24_Witness ==
    /\ Returned("_execute_operation")
    /\ args.operation.operation = "create_index"
    /\ args.operation.index_name = PyStr(LogsV1)
    /\ args.operation.settings = PyDict([number_of_shards |-> PyInt(3)])
    /\ args.operation.mappings = PyDict([properties |-> PyList(<<>>)])
    /\ ret.exc = Raise("ValueError", "Mappings 'properties' must be a dictionary", "")
    /\ ret.calls = <<>>

(***************************************************************************)
(* C25: the existence probe and the delete call of the client's delete     *)
(* methods.                                                                *)
(***************************************************************************)
DeleteMethods == {"delete_index", "delete_index_template"}
\* The target of the call is in the cluster the call is made against.
TargetExists == IF fn = "delete_index" THEN LogsV1 \in args.cl.indices ELSE Tpl \in args.cl.templates
ProbesSent == SelectSeq(ret.calls, LAMBDA c : c.api \in ProbeApis)
DeletesSent == SelectSeq(ret.calls, LAMBDA c : c.api \in MutatingApis)
\* The attempts a call whose first `fails` attempts fail gets from a client
\* allowed max_retries attempts.
AttemptsAllowed ==
    IF args.self.max_retries <= 0 THEN 0
    ELSE IF args.net.fails + 1 <= args.self.max_retries THEN args.net.fails + 1
    ELSE args.self.max_retries

(***************************************************************************)
(* C25: delete_index and delete_index_template send the existence probe    *)
(* exactly once, first and outside the retry loop; an exception of the     *)
(* probe propagates after that single attempt, nothing else being sent; a  *)
(* probe answering false ends the call without a delete; a probe answering *)
(* true is followed by the delete call, which is attempted again after     *)
(* each failure, up to max_retries attempts in all, and then raises (the   *)
(* dispatch loop records the failure).                                     *)
(***************************************************************************)
C25_ProbeOnceThenDelete ==
    (fn \in DeleteMethods /\ ret # Pending) =>
        /\ Len(ProbesSent) = 1
        /\ ret.calls[1].api \in ProbeApis
        /\ args.net.probe =>
              (ret.exc.raised /\ Len(ret.calls) = 1 /\ ret.slept = 0 /\ ret.cluster = args.cl)
        /\ (~args.net.probe /\ ~TargetExists) => (DeletesSent = <<>> /\ ~ret.exc.raised)
        /\ (~args.net.probe /\ TargetExists) =>
              /\ Len(DeletesSent) = AttemptsAllowed
              /\ ret.exc.raised <=> (args.self.max_retries >= 1 /\ args.net.fails >= args.self.max_retries)
        /\ DeletesSent # <<>> => (~args.net.probe /\ TargetExists)

C25_Witness ==
    /\ fn = "delete_index_template" /\ ret # Pending
    /\ TargetExists /\ args.self.max_retries = 3 /\ args.net.fails = 3
    /\ ret.exc.raised /\ Len(ret.calls) = 4 /\ Len(DeletesSent) = 3

(***************************************************************************)
(* C26: the result records and the counters of the YAML orchestrator.      *)
(***************************************************************************)
SuccessRecords == {k \in 1..Len(results) : results[k].status = "success"}

(***************************************************************************)
(* C26: in the YAML orchestrator the number of result records is always    *)
(* successful + failed; record k describes the k-th dispatched operation   *)
(* (its kind and its file); the records with status success are as many as *)
(* successful and carry a result, those with status failed are as many as  *)
(* failed and carry the error; and the record a dispatch step appends says *)
(* success exactly when the step raised successful, failed exactly when it *)
(* raised failed.                                                          *)
(***************************************************************************)
C26_RecordsMatchCounters ==
    [][orch = "yaml" =>
          /\ Len(results') = stats'.successful + stats'.failed
          /\ Cardinality(SuccessRecords') = stats'.successful
          /\ Cardinality(FailedRecords') = stats'.failed
          /\ \A k \in 1..Len(results') :
                /\ results'[k].source_file = operations'[k]["_file_name"]
                /\ results'[k].operation = operations'[k]["operation"]
                /\ results'[k].status \in {"success", "failed"}
                /\ results'[k].status = "success" => "result" \in DOMAIN results'[k]
                /\ results'[k].status = "failed" =>
                      ("error" \in DOMAIN results'[k] /\ results'[k].error.raised)
          /\ pc = "loop" =>
                /\ results' = Append(results, results'[i])
                /\ results'[i].status = "success" <=> stats'.successful = stats.successful + 1
                /\ results'[i].status = "failed" <=> stats'.failed = stats.failed + 1]_vars

C26_Witness ==
    /\ orch = "yaml" /\ pc = "done" /\ ~dry_run
    /\ Len(results) = 3 /\ stats.successful = 2 /\ stats.failed = 1
    /\ results[2].status = "failed" /\ results[2].error.type = "ValueError"
    /\ results[3].status = "success"

(***************************************************************************)
(* C27: nothing is ever recorded as skipped: the skipped counter of the    *)
(* YAML orchestrator is 0 in every state and no record of either           *)
(* orchestrator has the status skipped; an operation left unexecuted by a  *)
(* stop_on_error halt and a file dropped by the loader have no record at   *)
(* all.                                                                    *)
(***************************************************************************)
C27_NothingRecordedAsSkipped ==
    /\ stats.skipped = 0
    /\ \A k \in 1..Len(Records) : Records[k].status # "skipped"
    /\ Len(Records) = Succeeded + Failed
    /\ Len(Records) <= Len(operations)
    /\ \A k \in 1..Len(Records) : FileOf(Records[k]) = OpFile(operations[k])

C27_Witness ==
    /\ orch = "yaml" /\ pc = "done" /\ StopFlagSet
    /\ Cardinality(fs) = 3 /\ Len(operations) = 2 /\ Len(results) = 1
    /\ results[1].status = "failed" /\ stats.skipped = 0

(***************************************************************************)
(* C28: a client constructed with max_retries <= 0.                        *)
(***************************************************************************)
NoAttemptsAllowed == ret # Pending /\ args.self.max_retries <= 0
\* The retry helper itself: the wrapped call is never invoked, nothing is
\* raised and None is returned.
HelperReturnsNothing ==
    (fn = "_retry_operation" /\ NoAttemptsAllowed) =>
        (ret.calls = <<>> /\ ~ret.exc.raised /\ ret.result = NoneResult /\ ret.slept = 0)

(***************************************************************************)
(* C28 (as claimed): with max_retries <= 0 the retry helper never invokes  *)
(* the wrapped call and returns nothing without raising, so every client   *)
(* method reports success although nothing was sent.                       *)
(***************************************************************************)
C28_NoRetriesReportsSuccess ==
    /\ HelperReturnsNothing
    /\ (fn \in ClientMethods /\ NoAttemptsAllowed) => (~ret.exc.raised /\ ret.calls = <<>>)

(***************************************************************************)
(* C28 (amended): with max_retries <= 0 the retry helper never invokes the *)
(* wrapped call and returns None without raising, so no operation request  *)
(* is sent and the cluster is unchanged.  create_index,                    *)
(* update_index_settings, create_index_template and delete_document then   *)
(* return None as a success with nothing sent; index_document raises       *)
(* TypeError when it reads the id of the missing response; delete_index    *)
(* and delete_index_template still send their existence probe, and report  *)
(* success with None only when the probe answered that the target exists.  *)
(***************************************************************************)
C28_NoRetriesSendsNoOperation ==
    /\ HelperReturnsNothing
    /\ (fn \in ClientMethods /\ NoAttemptsAllowed) =>
          /\ DeletesSent = <<>>
          /\ ret.cluster = args.cl
          /\ fn \in {"create_index", "update_index_settings", "create_index_template", "delete_document"} =>
                (ret.calls = <<>> /\ ~ret.exc.raised /\ ret.result = NoneResult)
          /\ fn = "index_document" =>
                (ret.calls = <<>> /\ ret.exc.raised /\ ret.exc.type = "TypeError")
          /\ fn \in DeleteMethods =>
                /\ Len(ret.calls) = 1
                /\ ret.exc.raised <=> args.net.probe
                /\ (~args.net.probe /\ TargetExists) => ret.result = NoneResult
                /\ (~args.net.probe /\ ~TargetExists) => "status" \in DOMAIN ret.result

C28_Witness ==
    /\ fn = "index_document" /\ ret # Pending /\ args.self.max_retries = 0
    /\ LogsV1 \in args.cl.indices
    /\ ret.calls = <<>> /\ ret.exc.raised /\ ret.exc.type = "TypeError"

(***************************************************************************)
(* C29: in the YAML orchestrator a client connection that was opened is    *)
(* closed when run() returns, on the normal path and on every error path,  *)
(* and is never closed and left open again; a failure while the report is  *)
(* generated or written ends the run with exit code 1 and the connection   *)
(* closed, even when every operation succeeded.                            *)
(***************************************************************************)
C29_ClientClosedOnEveryPath ==
    [][orch = "yaml" =>
          /\ pc' = "done" => es_client' \in {"none", "closed"}
          /\ es_client = "open" => es_client' \in {"open", "closed"}
          /\ es_client = "closed" => es_client' = "closed"
          /\ (es_client' = "none" /\ pc' = "done") => Len(calls') <= 1
          /\ (pc = "report" /\ pc' = "done") => (exit_code' = 1 /\ es_client' = "closed")
          /\ (pc' = "done" /\ exit_code' = 0) => pc = "cleanup"]_vars

C29_Witness ==
    /\ orch = "yaml" /\ pc = "done" /\ exit_code = 1 /\ es_client = "closed"
    /\ i >= 1 /\ stats.total = 2 /\ stats.successful = 2 /\ stats.failed = 0

(***************************************************************************)
(* C30: the version 'latest' of the properties executor.                   *)
(***************************************************************************)
\* The folders whose name is made of decimal digits only.
NumberedFolders == {d \in args.dirs : d # <<>> /\ \A k \in 1..Len(d) : d[k] \in {Digits[j] : j \in 1..Len(Digits)}}

(***************************************************************************)
(* C30: asked for 'latest', find_version_operations settles on the folder  *)
(* with the numerically greatest all-digit name (10 over 9), a folder that *)
(* is among those listed; when there is no all-digit folder it raises (a   *)
(* fatal error of the run, no operation having been executed).             *)
(***************************************************************************)
C30_LatestIsGreatestNumberedFolder ==
    (fn = "find_version_operations" /\ ret # Pending /\ args.version = <<"l", "a", "t", "e", "s", "t">>) =>
        IF NumberedFolders = {} THEN ret.exc.raised
        ELSE /\ ~ret.exc.raised
             /\ ret.version \in NumberedFolders
             /\ \A d \in NumberedFolders : DigitsValue(d) <= DigitsValue(ret.version)
====
